---- MODULE Spec2Model ----
(***************************************************************************)
(* Model of the KPI alerting core of logicLeague: the relational stores    *)
(* (server/storage.ts), the analytics service (checkThresholds,            *)
(* detectAnomalies, generateForecast, runScenarioTest) and the HTTP        *)
(* handlers of server/routes.ts that write to the stores or answer from    *)
(* the analytics service.  Spec runs the handlers that write, one request  *)
(* at a time; SpecAnalytics runs the analytics engines on stored           *)
(* histories; SpecInflight interleaves two submissions await by await;     *)
(* SpecDashboard runs the routes the dashboard reads; SpecCalendar runs    *)
(* the four analytics operations on the dates of a year, with periods      *)
(* submitted more than once.                                               *)
(* Amounts are whole numbers in the KPI's unit; the code's comparisons     *)
(* a < p * t / 100  and  a > t * 1.1  are evaluated exactly as             *)
(* 100a < p*t  and  10a > 11t, and quotients are kept as fractions.        *)
(***************************************************************************)
EXTENDS Integers, Sequences, FiniteSets, TLC

\* ---------------------------------------------------------------- bounds
MaxOps   == 1
MaxTicks == 1
\* the longest history drawn for the analytics engines, the examples of
\* ExampleSeries apart
MaxSeries == 3

\* ------------------------------------------------------- value universes
Users        == {"u1", "u2"}
Pillars      == {"p1"}
Departments  == {"d1"}
ActualValues == {30, 50, 70, 90, 115}
TargetValues == {50}
Thresholds   == {[green |-> 80, amber |-> 60, red |-> 40],
                 [green |-> 40, amber |-> 60, red |-> 80]}
BodyFlags    == {"undefined", "true", "false", "null"}
\* the clock reads a calendar date, 32 * (12 * year + month index) + day
\* of the month; at the start, 15 March 2025
StartNow     == 32 * (2025 * 12 + 2) + 15
NullTime     == 0 - 1

VARIABLES kpis, targets, actuals, alerts, auditLogs, engineCalls, now,
          response, served, result, inflight

vars == <<kpis, targets, actuals, alerts, auditLogs, engineCalls, now,
          response, served, result, inflight>>

\* role column of the users table (schema.ts:12); u1 is an admin
Role(u) == IF u = "u1" THEN "admin" ELSE "user"

getFullYear(t) == (t \div 32) \div 12
getMonth(t)    == (t \div 32) % 12
getDate(t)     == t % 32

\* the number of days of the month with this count of months since year 0
DaysInMonth(months) ==
    LET year  == months \div 12
        month == months % 12
    IN  IF month = 1
        THEN IF year % 4 = 0 /\ (year % 100 # 0 \/ year % 400 = 0)
             THEN 29 ELSE 28
        ELSE IF month \in {3, 5, 8, 10} THEN 30 ELSE 31

\* Date.prototype.setMonth(month) on the date t: the month index may
\* exceed 11 and carries into the year; a day of the month that the
\* month does not have carries into the next month.
setMonth(t, month) ==
    LET months == 12 * getFullYear(t) + month
        day    == getDate(t)
    IN  IF day > DaysInMonth(months)
        THEN 32 * (months + 1) + (day - DaysInMonth(months))
        ELSE 32 * months + day
\* Math.ceil(m / 3) for a non-negative integer m
CeilDiv3(m)    == (m + 2) \div 3

\* ---------------------------------------------------------------- storage
\* DatabaseStorage.getKPI: kpis INNER JOIN pillars INNER JOIN departments
\* WHERE kpis.id = id; the set holds the 0 or 1 row that [result] receives.
getKPI(id) ==
    {k \in DOMAIN kpis : k = id /\ kpis[k].pillarId \in Pillars
                                /\ kpis[k].departmentId \in Departments}

\* DatabaseStorage.getTargets with a quarter given: the ids of the rows
\* that match; a NULL quarter never equals a given quarter.
getTargets(kpiId, year, quarter) ==
    {t \in DOMAIN targets : targets[t].kpiId = kpiId /\ targets[t].year = year
                            /\ targets[t].quarter = quarter}

\* DatabaseStorage.getActuals with a quarter given: actuals INNER JOIN
\* targets ON actuals.targetId = targets.id, filtered on the actual's KPI
\* and on the joined target's year and quarter.
getActuals(kpiId, year, quarter) ==
    {a \in DOMAIN actuals : actuals[a].kpiId = kpiId
                            /\ actuals[a].targetId \in DOMAIN targets
                            /\ targets[actuals[a].targetId].year = year
                            /\ targets[actuals[a].targetId].quarter = quarter}

\* createAlert that stores every alert as already read.
createAlertAsRead(store, insertAlert) ==
    Append(store, [type         |-> insertAlert.type,
                   severity     |-> insertAlert.severity,
                   kpiId        |-> insertAlert.kpiId,
                   departmentId |-> insertAlert.departmentId,
                   isRead       |-> TRUE,
                   isResolved   |-> insertAlert.isResolved,
                   resolvedBy   |-> "null",
                   resolvedAt   |-> NullTime])

\* createAlert that inserts the row twice.
createAlertTwice(store, insertAlert) ==
    LET row == [type         |-> insertAlert.type,
                severity     |-> insertAlert.severity,
                kpiId        |-> insertAlert.kpiId,
                departmentId |-> insertAlert.departmentId,
                isRead       |-> insertAlert.isRead,
                isResolved   |-> insertAlert.isResolved,
                resolvedBy   |-> "null",
                resolvedAt   |-> NullTime]
    IN  Append(Append(store, row), row)

\* DatabaseStorage.createAlert: the row as inserted; the columns the
\* insert leaves out take their defaults (resolved_by, resolved_at NULL).
createAlert(store, insertAlert) ==
    Append(store, [type         |-> insertAlert.type,
                   severity     |-> insertAlert.severity,
                   kpiId        |-> insertAlert.kpiId,
                   departmentId |-> insertAlert.departmentId,
                   isRead       |-> insertAlert.isRead,
                   isResolved   |-> insertAlert.isResolved,
                   resolvedBy   |-> "null",
                   resolvedAt   |-> NullTime])

\* updateAlert that inserts the row when no row has the id.
updateAlertUpsert(store, id, updates) ==
    IF id \in DOMAIN store
    THEN [store EXCEPT ![id] = [c \in DOMAIN store[id] |->
                 IF c \in DOMAIN updates THEN updates[c] ELSE store[id][c]]]
    ELSE Append(store, [type |-> "", severity |-> "", kpiId |-> 0,
                        departmentId |-> "", isRead |-> FALSE,
                        isResolved |-> FALSE, resolvedBy |-> "null",
                        resolvedAt |-> NullTime])

\* DatabaseStorage.updateAlert: UPDATE alerts SET <updates> WHERE id = id;
\* updates is a function from the column names it sets to their values.
updateAlert(store, id, updates) ==
    [a \in DOMAIN store |->
        IF a # id THEN store[a]
        ELSE [c \in DOMAIN store[a] |->
                 IF c \in DOMAIN updates THEN updates[c] ELSE store[a][c]]]

\* DatabaseStorage.createAuditLog; the model keeps what was done to which
\* resource and leaves the acting user's id out of the row.
createAuditLog(store, userId, action, resourceType, resourceId) ==
    Append(store, [action |-> action, resourceType |-> resourceType,
                   resourceId |-> resourceId])

\* ------------------------------------------------------ analytics service
\* ThresholdDecision with the amber comparison made before the red one.
ThresholdDecisionAmberFirst(actualValue, target) ==
    IF actualValue * 100 < target.threshold.amber * target.targetValue
    THEN [alertType |-> "threshold_breach", severity |-> "high"]
    ELSE IF actualValue * 100 < target.threshold.red * target.targetValue
    THEN [alertType |-> "threshold_breach", severity |-> "critical"]
    ELSE IF actualValue * 10 > target.targetValue * 11
    THEN [alertType |-> "target_exceeded", severity |-> "low"]
    ELSE [alertType |-> "", severity |-> "low"]

\* ThresholdDecision with the severity of a target_exceeded alert medium.
ThresholdDecisionExceededMedium(actualValue, target) ==
    IF actualValue * 100 < target.threshold.red * target.targetValue
    THEN [alertType |-> "threshold_breach", severity |-> "critical"]
    ELSE IF actualValue * 100 < target.threshold.amber * target.targetValue
    THEN [alertType |-> "threshold_breach", severity |-> "high"]
    ELSE IF actualValue * 10 > target.targetValue * 11
    THEN [alertType |-> "target_exceeded", severity |-> "medium"]
    ELSE [alertType |-> "", severity |-> "low"]

\* The decision of checkThresholds (analyticsService.ts:187-208):
\* alertType stays '' when no branch matches.
ThresholdDecision(actualValue, target) ==
    IF actualValue * 100 < target.threshold.red * target.targetValue
    THEN [alertType |-> "threshold_breach", severity |-> "critical"]
    ELSE IF actualValue * 100 < target.threshold.amber * target.targetValue
    THEN [alertType |-> "threshold_breach", severity |-> "high"]
    ELSE IF actualValue * 10 > target.targetValue * 11
    THEN [alertType |-> "target_exceeded", severity |-> "low"]
    ELSE [alertType |-> "", severity |-> "low"]

\* What the catch block of checkThresholds leaves behind: the error of the
\* storage call that threw is logged and the promise resolves.
ThresholdCheckCaught(store, call) ==
    [alerts |-> store, raised |-> FALSE,
     log |-> IF call = "createAlert" THEN "Threshold check error: createAlert"
             ELSE "Threshold check error: lookup"]

\* checkThresholds without its try/catch: a missing KPI or Target and a
\* failing storage call reject the promise.
checkThresholdsThrows(store, kpiId, actualValue, first, down) ==
    LET found == getTargets(kpiId, getFullYear(now), CeilDiv3(getMonth(now) + 1))
        threw == [alerts |-> store, raised |-> TRUE, log |-> ""]
    IN  IF down \cap {"getKPI", "getTargets"} # {} THEN threw
        ELSE IF getKPI(kpiId) = {} \/ found = {} THEN threw
        ELSE LET target == targets[IF first \in found THEN first
                                   ELSE CHOOSE t \in found : TRUE]
                 d      == ThresholdDecision(actualValue, target)
             IN  IF d.alertType = "" THEN [threw EXCEPT !.raised = FALSE]
                 ELSE IF "createAlert" \in down THEN threw
                 ELSE [alerts |-> createAlert(store,
                                    [type         |-> d.alertType,
                                     severity     |-> d.severity,
                                     kpiId        |-> kpiId,
                                     departmentId |-> kpis[kpiId].departmentId,
                                     isRead       |-> FALSE,
                                     isResolved   |-> FALSE]),
                       raised |-> FALSE,
                       log    |-> "Alert created"]

\* AnalyticsService.checkThresholds(kpiId, actualValue) run on the alert
\* store `store`.  first is the row the database returns as targets[0]
\* (the query has no ORDER BY); down is the set of storage calls that
\* throw (store unavailable).  The result is the alert store afterwards,
\* whether the promise rejected, and the line written to the console.
checkThresholds(store, kpiId, actualValue, first, down) ==
    LET currentYear    == getFullYear(now)
        currentQuarter == CeilDiv3(getMonth(now) + 1)
        found          == getTargets(kpiId, currentYear, currentQuarter)
        quiet          == [alerts |-> store, raised |-> FALSE, log |-> ""]
    IN  IF "getKPI" \in down THEN ThresholdCheckCaught(store, "getKPI")
        ELSE IF getKPI(kpiId) = {} THEN quiet
        ELSE IF "getTargets" \in down
        THEN ThresholdCheckCaught(store, "getTargets")
        ELSE IF found = {} THEN quiet
        ELSE LET target == targets[IF first \in found THEN first
                                   ELSE CHOOSE t \in found : TRUE]
                 d      == ThresholdDecision(actualValue, target)
                 kpi    == kpis[kpiId]
             IN  IF d.alertType = "" THEN quiet
                 ELSE IF "createAlert" \in down
                 THEN ThresholdCheckCaught(store, "createAlert")
                 ELSE [alerts |-> createAlert(store,
                                    [type         |-> d.alertType,
                                     severity     |-> d.severity,
                                     kpiId        |-> kpiId,
                                     departmentId |-> kpi.departmentId,
                                     isRead       |-> FALSE,
                                     isResolved   |-> FALSE]),
                       raised |-> FALSE,
                       log    |-> "Alert created"]

\* ------------------------------------------------------------ HTTP routes
Reply(route, status, log) == [route |-> route, status |-> status, log |-> log]

\* requireRole (routes.ts:465-477)
Allowed(u, allowedRoles) == Role(u) \in allowedRoles

\* One more invocation of the Alert Engine for the Actual with this id.
Invoked(calls, id) ==
    IF id \in DOMAIN calls THEN [calls EXCEPT ![id] = @ + 1]
    ELSE calls @@ (id :> 1)

\* DatabaseStorage.createActual: the row as inserted; status defaults to
\* 'pending' when the validated body carries none (schema.ts:77).
createActual(store, insertActual) ==
    Append(store, [kpiId       |-> insertActual.kpiId,
                   targetId    |-> insertActual.targetId,
                   actualValue |-> insertActual.actualValue,
                   status      |-> IF insertActual.status = "undefined"
                                   THEN "pending" ELSE insertActual.status])

\* DatabaseStorage.updateActual as the review route calls it: an undefined
\* status leaves the column alone; an unknown id updates no row.
updateActual(store, id, status) ==
    [a \in DOMAIN store |->
        IF a = id /\ status # "undefined"
        THEN [store[a] EXCEPT !.status = status] ELSE store[a]]

\* POST /api/actuals (routes.ts:272-301), the whole handler: parse, insert
\* the Actual, run the threshold check, write the audit log, answer 201;
\* anything thrown on the way is answered 400.
PostActualsResult(u, body, first, down) ==
    LET same == [actuals |-> actuals, alerts |-> alerts,
                 auditLogs |-> auditLogs, engineCalls |-> engineCalls]
        route == "POST /api/actuals"
        blank == same @@ [response |-> Reply(route, 400, "")]
    IN  IF ~body.valid \/ "createActual" \in down THEN blank
        ELSE LET stored  == createActual(actuals, body)
                 id      == Len(stored)
                 actual  == stored[id]
                 checked == checkThresholds(alerts, actual.kpiId,
                                            actual.actualValue, first, down)
                 after   == [actuals     |-> stored,
                             alerts      |-> checked.alerts,
                             auditLogs   |-> auditLogs,
                             engineCalls |-> Invoked(engineCalls, id),
                             response    |-> Reply(route, 400, checked.log)]
             IN  IF checked.raised \/ "createAuditLog" \in down THEN after
                 ELSE [after EXCEPT
                         !.auditLogs = createAuditLog(auditLogs, u, "submit",
                                                      "actual", id),
                         !.response  = Reply(route, 201, checked.log)]

\* PatchAlertResult with the resolver recorded on every update, not only
\* when the body carries isResolved.
PatchAlertResultStampsAlways(store, t, u, id, isRead, isResolved, down) ==
    LET route   == "PATCH /api/alerts/:id"
        readSet == IF isRead # "undefined"
                   THEN [isRead |-> (isRead = "true")] ELSE <<>>
        resSet  == IF isResolved # "undefined"
                   THEN [isResolved |-> (isResolved = "true")] ELSE <<>>
        updates == readSet @@ resSet @@ [resolvedBy |-> u, resolvedAt |-> t]
    IN  IF "updateAlert" \in down \/ "null" \in {isRead, isResolved}
        THEN [alerts |-> store, response |-> Reply(route, 500, "")]
        ELSE [alerts   |-> updateAlert(store, id, updates),
              response |-> Reply(route, 200, "")]

\* PATCH /api/alerts/:id (routes.ts:358-377).  isRead and isResolved are
\* the body's fields: "undefined" when absent, else "true", "false" or
\* "null"; store is the alert table and t the time of the request.  A null
\* violates the NOT NULL columns and an empty update has
\* nothing to set: both throw inside updateAlert and are answered 500.
PatchAlertResult(store, t, u, id, isRead, isResolved, down) ==
    LET route   == "PATCH /api/alerts/:id"
        readSet == IF isRead # "undefined"
                   THEN [isRead |-> (isRead = "true")] ELSE <<>>
        resSet  == IF isResolved # "undefined"
                   THEN [isResolved |-> (isResolved = "true"),
                         resolvedBy |-> u,
                         resolvedAt |-> t]
                   ELSE <<>>
        updates == readSet @@ resSet
    IN  IF "updateAlert" \in down \/ "null" \in {isRead, isResolved}
           \/ DOMAIN updates = {}
        THEN [alerts |-> store, response |-> Reply(route, 500, "")]
        ELSE [alerts   |-> updateAlert(store, id, updates),
              response |-> Reply(route, 200, "")]

\* ReviewActualResult that runs the Alert Engine again for the reviewed
\* Actual.
ReviewActualResultRechecks(u, id, status, down) ==
    LET route == "PATCH /api/actuals/:id/review"
    IN  IF ~Allowed(u, {"admin", "department_owner"})
           \/ "updateActual" \in down \/ "createAuditLog" \in down
        THEN [actuals |-> actuals, auditLogs |-> auditLogs,
              engineCalls |-> engineCalls, response |-> Reply(route, 500, "")]
        ELSE [actuals |-> updateActual(actuals, id, status),
              auditLogs |-> createAuditLog(auditLogs, u, "review", "actual", id),
              engineCalls |-> Invoked(engineCalls, id),
              response |-> Reply(route, 200, "")]

\* PATCH /api/actuals/:id/review (routes.ts:314-341): role check, update,
\* audit log, answer; a throw is answered 500.
ReviewActualResult(u, id, status, down) ==
    LET route == "PATCH /api/actuals/:id/review"
        same  == [actuals |-> actuals, auditLogs |-> auditLogs,
                  engineCalls |-> engineCalls]
    IN  IF ~Allowed(u, {"admin", "department_owner"})
        THEN same @@ [response |-> Reply(route, 403, "")]
        ELSE IF "updateActual" \in down
        THEN same @@ [response |-> Reply(route, 500, "")]
        ELSE LET updated == updateActual(actuals, id, status)
             IN  IF "createAuditLog" \in down
                 THEN [actuals |-> updated, auditLogs |-> auditLogs,
                       engineCalls |-> engineCalls,
                       response |-> Reply(route, 500, "")]
                 ELSE [actuals |-> updated,
                       auditLogs |-> createAuditLog(auditLogs, u, "review",
                                                    "actual", id),
                       engineCalls |-> engineCalls,
                       response |-> Reply(route, 200, "")]

\* ------------------------------------------------------- anomaly detector
Abs(x) == IF x < 0 THEN 0 - x ELSE x

\* The periods the history loop of detectAnomalies visits, in order
\* (analyticsService.ts:235-237): the four quarters of last year, then
\* the quarters of this year up to Math.ceil(getMonth() / 3).
HistoryPeriods ==
    LET currentYear == getFullYear(now)
    IN  [q \in 1..4 |-> <<currentYear - 1, q>>]
        \o [q \in 1..CeilDiv3(getMonth(now)) |-> <<currentYear, q>>]

RECURSIVE SeriesOver(_, _)
\* Every series the loop can gather for the KPI over the periods ps: one
\* value per period that has rows, taken from the row the database
\* returns first (actuals[0], no ORDER BY).
SeriesOver(kpiId, ps) ==
    IF ps = <<>> THEN {<<>>}
    ELSE LET rows == getActuals(kpiId, Head(ps)[1], Head(ps)[2])
             rest == SeriesOver(kpiId, Tail(ps))
         IN  IF rows = {} THEN rest
             ELSE {<<actuals[r].actualValue>> \o t : r \in rows, t \in rest}

\* IsAnomaly with "at least" for "more than".
IsAnomalyInclusive(recent, a, b) == Abs(2 * recent - a - b) >= 2 * Abs(a - b)

\* IsAnomaly with three standard deviations for two.
IsAnomalyThreeSigma(recent, a, b) == Abs(2 * recent - a - b) > 3 * Abs(a - b)

\* |recent - mean| > 2 * stddev over the two baseline points a, b: the
\* mean is (a + b) / 2 and the population stddev |a - b| / 2, so the test
\* is |2*recent - a - b| > 2 * |a - b|.
IsAnomaly(recent, a, b) == Abs(2 * recent - a - b) > 2 * Abs(a - b)

\* AnalyticsService.detectAnomalies(kpiId) on the gathered series hist;
\* the catch block logs and returns false.
detectAnomalies(store, kpiId, hist, down) ==
    LET n      == Len(hist)
        no     == [alerts |-> store, isAnomaly |-> FALSE]
    IN  IF "getActuals" \in down THEN no
        ELSE IF n < 3 THEN no
        ELSE IF ~IsAnomaly(hist[n], hist[n - 2], hist[n - 1]) THEN no
        ELSE IF "getKPI" \in down THEN no
        ELSE IF getKPI(kpiId) = {}
        THEN [alerts |-> store, isAnomaly |-> TRUE]
        ELSE IF "createAlert" \in down THEN no
        ELSE [alerts |-> createAlert(store,
                            [type         |-> "anomaly_detected",
                             severity     |-> "medium",
                             kpiId        |-> kpiId,
                             departmentId |-> kpis[kpiId].departmentId,
                             isRead       |-> FALSE,
                             isResolved   |-> FALSE]),
              isAnomaly |-> TRUE]

\* -------------------------------------------------------- forecast engine
\* Results that are not whole numbers are kept exact, as fractions
\* num / den with den > 0; values the code rounds to 2 decimals are kept
\* in hundredths.
Frac(num, den) == [num |-> num, den |-> den]

Max(a, b) == IF a > b THEN a ELSE b

RECURSIVE Reduce(_, _)
\* historicalData.reduce((sum, data, index) => sum + f(data, index), 0)
\* for the sequence of terms f(data, index)
Reduce(terms, sum) ==
    IF terms = <<>> THEN sum ELSE Reduce(Tail(terms), sum + Head(terms))

\* Math.round(x * 100) for x = num / den: the nearest whole number of
\* hundredths, a tie going up.
RoundHundredths(num, den) == (200 * num + den) \div (2 * den)

\* LinearFit with the indices counted from 1 instead of 0.
LinearFitFromOne(hist) ==
    LET n     == Len(hist)
        sumX  == Reduce([j \in 1..n |-> j], 0)
        sumY  == Reduce(hist, 0)
        sumXY == Reduce([j \in 1..n |-> j * hist[j]], 0)
        sumXX == Reduce([j \in 1..n |-> j * j], 0)
        den   == n * sumXX - sumX * sumX
        sn    == n * sumXY - sumX * sumY
    IN  [slope     |-> Frac(sn, den),
         intercept |-> Frac(sumY * den - sn * sumX, n * den)]

\* The simple linear regression of generateForecast
\* (analyticsService.ts:54-61) over the point indices 0..n-1:
\*   slope = (n*sumXY - sumX*sumY) / (n*sumXX - sumX*sumX)
\*   intercept = (sumY - slope*sumX) / n
LinearFit(hist) ==
    LET n     == Len(hist)
        sumX  == Reduce([j \in 1..n |-> j - 1], 0)
        sumY  == Reduce(hist, 0)
        sumXY == Reduce([j \in 1..n |-> (j - 1) * hist[j]], 0)
        sumXX == Reduce([j \in 1..n |-> (j - 1) * (j - 1)], 0)
        den   == n * sumXX - sumX * sumX
        sn    == n * sumXY - sumX * sumY
    IN  [slope     |-> Frac(sn, den),
         intercept |-> Frac(sumY * den - sn * sumX, n * den)]

\* ForecastPoint that evaluates the line one index further on.
ForecastPointOneAhead(hist, i) ==
    LET fit == LinearFit(hist)
        nextIndex == Len(hist) + i + 1
        future == setMonth(now, getMonth(now) + (i + 1) * 3)
    IN  [period |-> <<CeilDiv3(getMonth(future) + 1), getFullYear(future)>>,
         predictedValue |->
             Frac(Max(0, fit.intercept.num
                         + fit.slope.num * Len(hist) * nextIndex),
                  fit.intercept.den),
         confidence |-> Max(60, 100 - 10 * i)]

\* The i-th forecast point (analyticsService.ts:65-80), i = 0..3: the
\* line at index n + i, not below 0; the confidence in hundredths; the
\* period label Q<quarter> <year> of today's date moved (i + 1) * 3
\* months ahead with setMonth.
ForecastPoint(hist, i) ==
    LET fit == LinearFit(hist)
        nextIndex == Len(hist) + i
        future == setMonth(now, getMonth(now) + (i + 1) * 3)
    IN  [period |-> <<CeilDiv3(getMonth(future) + 1), getFullYear(future)>>,
         predictedValue |->
             Frac(Max(0, fit.intercept.num
                         + fit.slope.num * Len(hist) * nextIndex),
                  fit.intercept.den),
         confidence |-> Max(60, 100 - 10 * i)]

\* TrendOf with the comparisons against 0 instead of 0.5 and -0.5.
TrendOfSign(slope) ==
    IF slope.num > 0 THEN "increasing"
    ELSE IF slope.num < 0 THEN "decreasing"
    ELSE "stable"

\* The trend label (analyticsService.ts:83-85): slope > 0.5, slope < -0.5.
TrendOf(slope) ==
    IF 2 * slope.num > slope.den THEN "increasing"
    ELSE IF 2 * slope.num < 0 - slope.den THEN "decreasing"
    ELSE "stable"

\* The recommendation text (analyticsService.ts:88-95).
RecommendationOf(trend) ==
    IF trend = "decreasing"
    THEN "Performance is trending downward. Consider implementing corrective measures to improve KPI performance."
    ELSE IF trend = "increasing"
    THEN "Performance is trending upward. Continue current strategies and consider scaling successful initiatives."
    ELSE "Performance is stable. Monitor for any changes and consider optimization opportunities."

\* generateForecast that forecasts from a single point as well.
generateForecastFromOne(kpiId, hist, down) ==
    IF "getActuals" \in down \/ Len(hist) < 1
    THEN [ok |-> FALSE, error |-> "Failed to generate forecast"]
    ELSE [ok |-> TRUE, kpiId |-> kpiId,
          forecast |-> [i \in 1..4 |-> ForecastPoint(hist, i - 1)],
          trend |-> TrendOf(LinearFit(hist).slope),
          recommendation |-> RecommendationOf(TrendOf(LinearFit(hist).slope))]

\* AnalyticsService.generateForecast(kpiId) on the gathered series hist.
\* Anything thrown inside (a failing getActuals, fewer than 2 points) is
\* thrown again as 'Failed to generate forecast'.
generateForecast(kpiId, hist, down) ==
    IF "getActuals" \in down \/ Len(hist) < 2
    THEN [ok |-> FALSE, error |-> "Failed to generate forecast"]
    ELSE [ok |-> TRUE, kpiId |-> kpiId,
          forecast |-> [i \in 1..4 |-> ForecastPoint(hist, i - 1)],
          trend |-> TrendOf(LinearFit(hist).slope),
          recommendation |-> RecommendationOf(TrendOf(LinearFit(hist).slope))]

\* -------------------------------------------------------- scenario engine
\* ScenarioOutcome without the guard on the current value: the division
\* by 0 gives an infinite change, so the projected outcome is not a
\* finite number (null in the JSON body, 0 here), the impact of a positive
\* input is positive and the confidence is at its floor.
ScenarioOutcomeDivides(scenario, index, currentValue) ==
    LET inputValue == scenario.value
        change == IF currentValue # 0
                  THEN Frac(100 * (inputValue - currentValue), currentValue)
                  ELSE Frac(inputValue, 0)
    IN  [name |-> IF scenario.name = "" THEN <<"Scenario", index>>
                  ELSE <<scenario.name>>,
         inputValue |-> inputValue,
         changePercent |-> change,
         projectedOutcome |->
             IF currentValue = 0 THEN 0
             ELSE RoundHundredths(inputValue * (10 * change.den + change.num),
                                  10 * change.den),
         impact |-> IF change.num > 5 * change.den THEN "positive"
                    ELSE IF change.num < 0 - 5 * change.den THEN "negative"
                    ELSE "neutral",
         confidence |->
             IF currentValue = 0 THEN 50
             ELSE Max(50, RoundHundredths(100 * change.den - Abs(change.num),
                                          100 * change.den))]

\* ScenarioOutcome with the impact decided at 5 and -5 inclusive.
ScenarioOutcomeInclusive(scenario, index, currentValue) ==
    LET inputValue == scenario.value
        change == IF currentValue > 0
                  THEN Frac(100 * (inputValue - currentValue), currentValue)
                  ELSE Frac(0, 1)
    IN  [name |-> IF scenario.name = "" THEN <<"Scenario", index>>
                  ELSE <<scenario.name>>,
         inputValue |-> inputValue,
         changePercent |-> change,
         projectedOutcome |->
             RoundHundredths(inputValue * (10 * change.den + change.num),
                             10 * change.den),
         impact |-> IF change.num >= 5 * change.den THEN "positive"
                    ELSE IF change.num <= 0 - 5 * change.den THEN "negative"
                    ELSE "neutral",
         confidence |->
             Max(50, RoundHundredths(100 * change.den - Abs(change.num),
                                     100 * change.den))]

\* One element of scenarioData.map (analyticsService.ts:122-142).
\*   changePercent = currentValue > 0
\*                     ? (inputValue - currentValue) / currentValue * 100 : 0
\*   projectedOutcome = inputValue * (1 + changePercent * 0.1), 2 decimals
\*   impact: changePercent > 5, changePercent < -5
\*   confidence = max(0.5, 1 - |changePercent| / 100), 2 decimals
\* changePercent is not part of the returned object; the model keeps it.
\* projectedOutcome and confidence are in hundredths.  The name is the
\* scenario's, or `Scenario <index + 1>` when it has none ("").  The
\* scenario values are whole numbers, for which `scenario.value || 0` is
\* the value.
ScenarioOutcome(scenario, index, currentValue) ==
    LET inputValue == scenario.value
        change == IF currentValue > 0
                  THEN Frac(100 * (inputValue - currentValue), currentValue)
                  ELSE Frac(0, 1)
    IN  [name |-> IF scenario.name = "" THEN <<"Scenario", index>>
                  ELSE <<scenario.name>>,
         inputValue |-> inputValue,
         changePercent |-> change,
         projectedOutcome |->
             RoundHundredths(inputValue * (10 * change.den + change.num),
                             10 * change.den),
         impact |-> IF change.num > 5 * change.den THEN "positive"
                    ELSE IF change.num < 0 - 5 * change.den THEN "negative"
                    ELSE "neutral",
         confidence |->
             Max(50, RoundHundredths(100 * change.den - Abs(change.num),
                                     100 * change.den))]

\* The recommendations (analyticsService.ts:145-159): one sentence naming
\* the positive scenarios, one naming the negative ones, or the generic
\* sentence when there is neither.
RecommendationsOf(scenarios) ==
    LET named(impact) == SelectSeq(scenarios, LAMBDA sc : sc.impact = impact)
        pos == named("positive")
        neg == named("negative")
    IN  (IF pos # <<>>
         THEN <<[sentence |-> "Consider implementing strategies similar to:",
                 names |-> [j \in DOMAIN pos |-> pos[j].name]]>>
         ELSE <<>>)
        \o (IF neg # <<>>
            THEN <<[sentence |-> "Avoid strategies that could lead to:",
                    names |-> [j \in DOMAIN neg |-> neg[j].name]]>>
            ELSE <<>>)
        \o (IF pos = <<>> /\ neg = <<>>
            THEN <<[sentence |-> "All scenarios show neutral impact. Consider more aggressive strategies for improvement.",
                    names |-> <<>>]>>
            ELSE <<>>)

\* AnalyticsService.runScenarioTest(kpiId, scenarioData).  current is the
\* row the database returns first for the current quarter (0 when it
\* returns none); given is false when the request body carries no
\* scenarioData array, which makes .map throw.  Anything thrown inside is
\* thrown again as 'Failed to run scenario test'.
runScenarioTest(kpiId, given, scenarioData, current, down) ==
    LET failed == [ok |-> FALSE, error |-> "Failed to run scenario test"]
        currentValue == IF current = 0 THEN 0
                        ELSE actuals[current].actualValue
        scenarios == [j \in DOMAIN scenarioData |->
                         ScenarioOutcome(scenarioData[j], j, currentValue)]
    IN  IF "getKPI" \in down \/ getKPI(kpiId) = {} THEN failed
        ELSE IF "getActuals" \in down \/ ~given THEN failed
        ELSE [ok |-> TRUE, kpiId |-> kpiId, scenarios |-> scenarios,
              recommendations |-> RecommendationsOf(scenarios)]

\* --------------------------------------------------- the analytics routes
\* GET /api/analytics/forecast/:kpiId (routes.ts:380-389): the forecast
\* as the JSON body, or 500 with a message when generateForecast throws.
GetForecastResult(kpiId, hist, down) ==
    LET route == "GET /api/analytics/forecast/:kpiId"
        r     == generateForecast(kpiId, hist, down)
    IN  IF r.ok
        THEN [response |-> Reply(route, 200, ""), result |-> <<r>>]
        ELSE [response |-> Reply(route, 500, "Forecast generation error"),
              result   |-> <<[message |-> "Failed to generate forecast"]>>]

\* POST /api/analytics/scenario (routes.ts:391-400): the scenario results
\* as the JSON body, or 500 with a message when runScenarioTest throws.
PostScenarioResult(kpiId, given, scenarioData, current, down) ==
    LET route == "POST /api/analytics/scenario"
        r     == runScenarioTest(kpiId, given, scenarioData, current, down)
    IN  IF r.ok
        THEN [response |-> Reply(route, 200, ""), result |-> <<r>>]
        ELSE [response |-> Reply(route, 500, "Scenario test error"),
              result   |-> <<[message |-> "Failed to run scenario test"]>>]

\* ------------------------------------------------------------------ state
\* A database in use: KPI 1 of department d1 with targets of 100 for
\* Q3 2024, Q4 2024 and Q1 2025 and one submission for each: 70 and 90,
\* reviewed, which raised no alert, and 30 for Q1 2025, still pending,
\* which raised the critical alert that u1 resolved the day before without
\* marking it read.  The clock reads 15 March 2025.
Init ==
    /\ kpis = <<[pillarId |-> "p1", departmentId |-> "d1"]>>
    /\ targets = [q \in 1..3 |->
                    [kpiId |-> 1,
                     year |-> IF q = 3 THEN 2025 ELSE 2024,
                     quarter |-> IF q = 3 THEN 1 ELSE q + 2,
                     targetValue |-> 100,
                     threshold |-> [green |-> 80, amber |-> 60, red |-> 40]]]
    /\ actuals = <<[kpiId |-> 1, targetId |-> 1, actualValue |-> 70,
                    status |-> "approved"],
                   [kpiId |-> 1, targetId |-> 2, actualValue |-> 90,
                    status |-> "approved"],
                   [kpiId |-> 1, targetId |-> 3, actualValue |-> 30,
                    status |-> "pending"]>>
    /\ alerts = <<[type |-> "threshold_breach", severity |-> "critical",
                   kpiId |-> 1, departmentId |-> "d1", isRead |-> FALSE,
                   isResolved |-> TRUE, resolvedBy |-> "u1",
                   resolvedAt |-> StartNow - 1]>>
    /\ auditLogs = <<>>
    /\ engineCalls = [a \in 1..3 |-> 1]
    /\ now = StartNow
    /\ response = Reply("", 0, "")
    /\ served = 0
    /\ result = <<>>
    /\ inflight = <<>>

\* the ids that requests name: rows that exist and rows that may not
KpiRefs    == {1, 2}
TargetRefs == {3, 4}
AlertRefs  == {1, 2}
ActualRefs == {3, 4}

\* POST /api/kpis (routes.ts:226-246)
CreateKPI(u, pillarId, down) ==
    LET route == "POST /api/kpis"
        added == Append(kpis, [pillarId |-> pillarId, departmentId |-> "d1"])
    IN  /\ served' = served + 1
        /\ IF ~Allowed(u, {"admin"})
           THEN /\ response' = Reply(route, 403, "")
                /\ UNCHANGED <<kpis, auditLogs>>
           ELSE IF "createKPI" \in down
           THEN /\ response' = Reply(route, 400, "")
                /\ UNCHANGED <<kpis, auditLogs>>
           ELSE IF "createAuditLog" \in down
           THEN /\ kpis' = added
                /\ response' = Reply(route, 400, "")
                /\ UNCHANGED auditLogs
           ELSE /\ kpis' = added
                /\ auditLogs' = createAuditLog(auditLogs, u, "create", "kpi",
                                               Len(added))
                /\ response' = Reply(route, 201, "")
        /\ UNCHANGED <<targets, actuals, alerts, engineCalls, now,
                   result, inflight>>

\* POST /api/targets (routes.ts:249-269)
CreateTarget(u, body, down) ==
    LET route == "POST /api/targets"
        added == Append(targets, body)
    IN  /\ served' = served + 1
        /\ IF ~Allowed(u, {"admin", "department_owner"})
           THEN /\ response' = Reply(route, 403, "")
                /\ UNCHANGED <<targets, auditLogs>>
           ELSE IF "createTarget" \in down
           THEN /\ response' = Reply(route, 400, "")
                /\ UNCHANGED <<targets, auditLogs>>
           ELSE IF "createAuditLog" \in down
           THEN /\ targets' = added
                /\ response' = Reply(route, 400, "")
                /\ UNCHANGED auditLogs
           ELSE /\ targets' = added
                /\ auditLogs' = createAuditLog(auditLogs, u, "create",
                                               "target", Len(added))
                /\ response' = Reply(route, 201, "")
        /\ UNCHANGED <<kpis, actuals, alerts, engineCalls, now,
                   result, inflight>>

\* POST /api/actuals
PostActuals(u, body, first, down) ==
    LET r == PostActualsResult(u, body, first, down)
    IN  /\ served' = served + 1
        /\ actuals' = r.actuals
        /\ alerts' = r.alerts
        /\ auditLogs' = r.auditLogs
        /\ engineCalls' = r.engineCalls
        /\ response' = r.response
        /\ UNCHANGED <<kpis, targets, now,
                   result, inflight>>

\* PATCH /api/actuals/:id/review
ReviewActual(u, id, status, down) ==
    LET r == ReviewActualResult(u, id, status, down)
    IN  /\ served' = served + 1
        /\ actuals' = r.actuals
        /\ auditLogs' = r.auditLogs
        /\ engineCalls' = r.engineCalls
        /\ response' = r.response
        /\ UNCHANGED <<kpis, targets, alerts, now,
                   result, inflight>>

\* PATCH /api/alerts/:id
PatchAlert(u, id, isRead, isResolved, down) ==
    LET r == PatchAlertResult(alerts, now, u, id, isRead, isResolved, down)
    IN  /\ served' = served + 1
        /\ alerts' = r.alerts
        /\ response' = r.response
        /\ UNCHANGED <<kpis, targets, actuals, auditLogs, engineCalls, now,
                   result, inflight>>

\* POST /api/auth/login (routes.ts:61-115): a successful login writes an
\* audit log; wrong credentials are answered 401.
Login(u, ok, down) ==
    LET route == "POST /api/auth/login"
    IN  /\ served' = served + 1
        /\ IF ~ok
           THEN /\ response' = Reply(route, 401, "")
                /\ UNCHANGED auditLogs
           ELSE IF "createAuditLog" \in down
           THEN /\ response' = Reply(route, 500, "")
                /\ UNCHANGED auditLogs
           ELSE /\ auditLogs' = createAuditLog(auditLogs, u, "login", "user", u)
                /\ response' = Reply(route, 200, "")
        /\ UNCHANGED <<kpis, targets, actuals, alerts, engineCalls, now,
                   result, inflight>>

\* POST /api/auth/register (routes.ts:117): requireRole runs without
\* authMiddleware before it, so req.user is never set and the route
\* always answers 401.
Register ==
    /\ served' = served + 1
    /\ response' = Reply("POST /api/auth/register", 401, "")
    /\ UNCHANGED <<kpis, targets, actuals, alerts, auditLogs, engineCalls, now,
                   result, inflight>>

\* analyticsService.detectAnomalies(kpiId), a service call no route makes
DetectAnomalies(kpiId, hist, down) ==
    LET r == detectAnomalies(alerts, kpiId, hist, down)
    IN  /\ served' = served + 1
        /\ alerts' = r.alerts
        /\ response' = Reply("detectAnomalies", 0,
                             IF r.isAnomaly THEN "true" ELSE "false")
        /\ UNCHANGED <<kpis, targets, actuals, auditLogs, engineCalls, now,
                   result, inflight>>

\* GET /api/analytics/forecast/:kpiId
GetForecast(kpiId, hist, down) ==
    LET r == GetForecastResult(kpiId, hist, down)
    IN  /\ served' = served + 1
        /\ response' = r.response
        /\ result' = r.result
        /\ UNCHANGED <<kpis, targets, actuals, alerts, auditLogs, engineCalls,
                       now, inflight>>

\* POST /api/analytics/scenario
PostScenario(kpiId, given, scenarioData, current, down) ==
    LET r == PostScenarioResult(kpiId, given, scenarioData, current, down)
    IN  /\ served' = served + 1
        /\ response' = r.response
        /\ result' = r.result
        /\ UNCHANGED <<kpis, targets, actuals, alerts, auditLogs, engineCalls,
                       now, inflight>>

\* The wall clock moves on by a month.
Tick ==
    /\ now < StartNow + 32 * MaxTicks
    /\ now' = now + 32
    /\ UNCHANGED <<kpis, targets, actuals, alerts, auditLogs, engineCalls,
                   response, served,
                   result, inflight>>

\* request bodies of POST /api/actuals: the ones insertActualSchema
\* accepts, and one it rejects
ActualBodies ==
    [valid : {TRUE}, kpiId : KpiRefs, targetId : TargetRefs,
     actualValue : ActualValues, status : {"undefined", "approved"}]
    \cup {[valid |-> FALSE, kpiId |-> 1, targetId |-> 3, actualValue |-> 30,
           status |-> "undefined"]}

\* the rows getTargets can return first for the KPI in the current quarter
\* (0 when it returns none)
FirstRows(kpiId) ==
    LET found == getTargets(kpiId, getFullYear(now), CeilDiv3(getMonth(now) + 1))
    IN  IF found = {} THEN {0} ELSE found

TargetBodies ==
    [kpiId : KpiRefs, year : {2025}, quarter : {1, 2},
     targetValue : TargetValues, threshold : Thresholds]

\* the storage calls of a POST /api/actuals that are taken to fail: none,
\* each one alone, and alert and audit-log inserts together
PostDowns ==
    {{}, {"createActual"}, {"getKPI"}, {"getTargets"}, {"createAlert"},
     {"createAuditLog"}, {"createAlert", "createAuditLog"}}

\* Requests are served until MaxOps of them have been.
Serving == served < MaxOps

Next ==
    \/ /\ Serving
       /\ \E u \in Users, p \in {"p1", "p0"}, down \in SUBSET {"createKPI", "createAuditLog"} :
             CreateKPI(u, p, down)
    \/ /\ Serving
       /\ \E u \in Users, body \in TargetBodies, down \in SUBSET {"createTarget", "createAuditLog"} :
             CreateTarget(u, body, down)
    \/ /\ Serving
       /\ \E u \in Users, body \in ActualBodies, down \in PostDowns :
             \E first \in FirstRows(body.kpiId) :
                PostActuals(u, body, first, down)
    \/ /\ Serving
       /\ \E u \in Users, id \in ActualRefs, status \in {"undefined", "approved", "rejected"},
             down \in SUBSET {"updateActual", "createAuditLog"} :
             ReviewActual(u, id, status, down)
    \/ /\ Serving
       /\ \E u \in Users, id \in AlertRefs, isRead \in BodyFlags, isResolved \in BodyFlags,
             down \in SUBSET {"updateAlert"} :
             PatchAlert(u, id, isRead, isResolved, down)
    \/ /\ Serving
       /\ \E u \in Users, ok \in BOOLEAN, down \in SUBSET {"createAuditLog"} :
             Login(u, ok, down)
    \/ /\ Serving
       /\ Register
    \/ /\ Serving
       /\ \E kpiId \in KpiRefs :
             \E hist \in SeriesOver(kpiId, HistoryPeriods) :
                \E down \in SUBSET {"getActuals", "getKPI", "createAlert"} :
                   DetectAnomalies(kpiId, hist, down)
    \/ Tick

Spec == Init /\ [][Next]_vars

\* ------------------------------------------------- the analytics engines
\* The values of the histories drawn, and further series: the worked
\* examples and series whose fitted slope is 0.5, -0.5 and 1.
AnalyticsValues == {0, 50, 100}
ExampleSeries   == {<<50, 52, 90>>, <<50, 51, 52>>, <<10, 20, 30, 40>>,
                    <<50, 50, 51>>, <<51, 50, 50>>, <<50, 51>>}

RECURSIVE SeqsUpTo(_, _)
\* the sequences over S of length at most n
SeqsUpTo(S, n) ==
    IF n = 0 THEN {<<>>}
    ELSE LET shorter == SeqsUpTo(S, n - 1)
         IN  shorter \cup {Append(q, v) : q \in shorter, v \in S}

HistoryInputs == SeqsUpTo(AnalyticsValues, MaxSeries) \cup ExampleSeries

\* request bodies of POST /api/analytics/scenario: up to two scenarios,
\* named or not ("" for no name)
ScenarioInputs ==
    SeqsUpTo([name : {"A", ""}, value : {0, 120}], 2)

\* the rows getActuals can return first for the KPI in the current quarter
\* (0 when it returns none)
CurrentRows(kpiId) ==
    LET found == getActuals(kpiId, getFullYear(now), CeilDiv3(getMonth(now) + 1))
    IN  IF found = {} THEN {0} ELSE found

\* A database with a history: targets for KPI 1 for the five quarters
\* Q1 2024 .. Q1 2025 and one approved Actual for each quarter of a run
\* of consecutive quarters that ends with Q4 2024 or Q1 2025.  The kpis
\* row may be missing: no foreign key ties actuals.kpi_id to it.  No
\* alert is stored.  The clock reads 15 March 2025.
InitAnalytics ==
    /\ kpis \in {<<>>, <<[pillarId |-> "p1", departmentId |-> "d1"]>>}
    /\ targets = [q \in 1..5 |->
                    [kpiId |-> 1,
                     year |-> IF q = 5 THEN 2025 ELSE 2024,
                     quarter |-> IF q = 5 THEN 1 ELSE q,
                     targetValue |-> 100,
                     threshold |-> [green |-> 80, amber |-> 60, red |-> 40]]]
    /\ \E hist \in HistoryInputs, last \in {4, 5} :
          /\ Len(hist) <= last
          /\ actuals = [j \in 1..Len(hist) |->
                           [kpiId |-> 1, targetId |-> last - Len(hist) + j,
                            actualValue |-> hist[j], status |-> "approved"]]
    /\ alerts = <<>>
    /\ auditLogs = [j \in 1..Len(actuals) |->
                      [action |-> "submit", resourceType |-> "actual",
                       resourceId |-> j]]
    /\ engineCalls = [a \in 1..Len(actuals) |-> 1]
    /\ now = StartNow
    /\ response = Reply("", 0, "")
    /\ served = 0
    /\ result = <<>>
    /\ inflight = <<>>

NextAnalytics ==
    \/ /\ Serving
       /\ \E kpiId \in KpiRefs :
             \E hist \in SeriesOver(kpiId, HistoryPeriods) :
                \E down \in SUBSET {"getActuals"} :
                   GetForecast(kpiId, hist, down)
    \/ /\ Serving
       /\ \E kpiId \in KpiRefs, given \in BOOLEAN :
             \E scenarioData \in (IF given THEN ScenarioInputs ELSE {<<>>}) :
                \E current \in CurrentRows(kpiId) :
                   \E down \in {{}, {"getKPI"}, {"getActuals"}} :
                      PostScenario(kpiId, given, scenarioData, current, down)
    \/ /\ Serving
       /\ \E kpiId \in KpiRefs :
             \E hist \in SeriesOver(kpiId, HistoryPeriods) :
                \E down \in SUBSET {"getActuals", "getKPI", "createAlert"} :
                   DetectAnomalies(kpiId, hist, down)
    \/ Tick

SpecAnalytics == InitAnalytics /\ [][NextAnalytics]_vars

\* ------------------------------------------- submissions in flight
\* Two POST /api/actuals requests run at once.  Node runs a handler
\* without interruption from one `await` to the next, so a request is a
\* sequence of steps, one per awaited storage call, and the steps of the
\* two requests interleave in any order.  inflight[r] holds the locals of
\* request r: its user, body and failing storage calls, the call it
\* awaits next (pc), the row createActual returned (actual, 0 before),
\* the actualValue argument it passed to checkThresholds, the decision
\* checkThresholds holds across its last await, and its answer.
Requests == {1, 2}

\* The argument of checkThresholds, read from the newest row of the
\* actuals table instead of the row createActual returned.
ThresholdArgumentNewest(r) == actuals[Len(actuals)].actualValue

\* parseFloat(actual.actualValue) of the row createActual returned to
\* request r (routes.ts:280-283)
ThresholdArgument(r) == actuals[inflight[r].actual].actualValue

\* request r moves on to await `pc`, with the locals in `changes` set
Advance(r, pc, changes) ==
    [inflight EXCEPT ![r] = [f \in DOMAIN inflight[r] |->
        IF f = "pc" THEN pc
        ELSE IF f \in DOMAIN changes THEN changes[f]
        ELSE inflight[r][f]]]

\* request r answers: res.status(status)
Answer(r, status) ==
    /\ inflight' = Advance(r, "done", [status |-> status])
    /\ response' = Reply("POST /api/actuals", status, inflight[r].log)
    /\ served' = served + 1

\* routes.ts:279-280: parse the body and insert the Actual
SubmitCreateActual(r) ==
    /\ inflight[r].pc = "createActual"
    /\ IF ~inflight[r].body.valid \/ "createActual" \in inflight[r].down
       THEN /\ Answer(r, 400)
            /\ UNCHANGED actuals
       ELSE /\ actuals' = createActual(actuals, inflight[r].body)
            /\ inflight' = Advance(r, "getKPI", [actual |-> Len(actuals) + 1])
            /\ UNCHANGED <<response, served>>
    /\ UNCHANGED <<kpis, targets, alerts, auditLogs, engineCalls, now, result>>

\* routes.ts:283 and analyticsService.ts:174-175: checkThresholds is
\* called with the stored row's KPI and value, and looks the KPI up
CheckGetKPI(r) ==
    LET kpiId == actuals[inflight[r].actual].kpiId
        value == ThresholdArgument(r)
    IN  /\ inflight[r].pc = "getKPI"
        /\ engineCalls' = Invoked(engineCalls, inflight[r].actual)
        /\ inflight' =
              IF "getKPI" \in inflight[r].down
              THEN Advance(r, "createAuditLog",
                           [actualValue |-> value,
                            log |-> "Threshold check error: lookup"])
              ELSE IF getKPI(kpiId) = {}
              THEN Advance(r, "createAuditLog", [actualValue |-> value])
              ELSE Advance(r, "getTargets", [actualValue |-> value])
        /\ UNCHANGED <<kpis, targets, actuals, alerts, auditLogs, now,
                       response, served, result>>

\* analyticsService.ts:177-208: the targets of the current quarter are
\* read and the decision is made from targets[0]
CheckGetTargets(r, first) ==
    LET kpiId == actuals[inflight[r].actual].kpiId
        d     == ThresholdDecision(inflight[r].actualValue, targets[first])
    IN  /\ inflight[r].pc = "getTargets"
        /\ first \in FirstRows(kpiId)
        /\ inflight' =
              IF "getTargets" \in inflight[r].down
              THEN Advance(r, "createAuditLog",
                           [log |-> "Threshold check error: lookup"])
              ELSE IF first = 0 \/ d.alertType = ""
              THEN Advance(r, "createAuditLog", <<>>)
              ELSE Advance(r, "createAlert", [decision |-> d])
        /\ UNCHANGED <<kpis, targets, actuals, alerts, auditLogs, engineCalls,
                       now, response, served, result>>

\* analyticsService.ts:210-223: the alert is inserted
CheckCreateAlert(r) ==
    LET kpiId == actuals[inflight[r].actual].kpiId
    IN  /\ inflight[r].pc = "createAlert"
        /\ IF "createAlert" \in inflight[r].down
           THEN /\ inflight' = Advance(r, "createAuditLog",
                       [log |-> "Threshold check error: createAlert"])
                /\ UNCHANGED alerts
           ELSE /\ alerts' = createAlert(alerts,
                       [type         |-> inflight[r].decision.alertType,
                        severity     |-> inflight[r].decision.severity,
                        kpiId        |-> kpiId,
                        departmentId |-> kpis[kpiId].departmentId,
                        isRead       |-> FALSE,
                        isResolved   |-> FALSE])
                /\ inflight' = Advance(r, "createAuditLog",
                                       [log |-> "Alert created"])
        /\ UNCHANGED <<kpis, targets, actuals, auditLogs, engineCalls, now,
                       response, served, result>>

\* routes.ts:285-299: the audit log is written and the request answered
SubmitCreateAuditLog(r) ==
    /\ inflight[r].pc = "createAuditLog"
    /\ IF "createAuditLog" \in inflight[r].down
       THEN /\ Answer(r, 400)
            /\ UNCHANGED auditLogs
       ELSE /\ auditLogs' = createAuditLog(auditLogs, inflight[r].u, "submit",
                                           "actual", inflight[r].actual)
            /\ Answer(r, 201)
    /\ UNCHANGED <<kpis, targets, actuals, alerts, engineCalls, now, result>>

\* Two KPIs of department d1, each with its target for Q1 2025 (100 and
\* 50), no submission yet, and two submissions arriving, request 1 for
\* KPI 1 and request 2 for KPI 2.  The clock reads 15 March 2025.
InitInflight ==
    /\ kpis = [k \in 1..2 |-> [pillarId |-> "p1", departmentId |-> "d1"]]
    /\ targets = [t \in 1..2 |->
                    [kpiId |-> t, year |-> 2025, quarter |-> 1,
                     targetValue |-> IF t = 1 THEN 100 ELSE 50,
                     threshold |-> [green |-> 80, amber |-> 60, red |-> 40]]]
    /\ actuals = <<>>
    /\ alerts = <<>>
    /\ auditLogs = <<>>
    /\ engineCalls = <<>>
    /\ now = StartNow
    /\ response = Reply("", 0, "")
    /\ served = 0
    /\ result = <<>>
    /\ \E values \in [Requests -> ActualValues],
          downs \in [Requests -> PostDowns] :
          inflight = [r \in Requests |->
                        [u |-> "u2",
                         body |-> [valid |-> TRUE, kpiId |-> r, targetId |-> r,
                                   actualValue |-> values[r],
                                   status |-> "undefined"],
                         down |-> downs[r],
                         pc |-> "createActual",
                         actual |-> 0,
                         actualValue |-> 0,
                         decision |-> [alertType |-> "", severity |-> "low"],
                         status |-> 0,
                         log |-> ""]]

NextInflight ==
    \/ \E r \in Requests : SubmitCreateActual(r)
    \/ \E r \in Requests : CheckGetKPI(r)
    \/ \E r \in Requests : \E first \in {0} \cup DOMAIN targets :
          CheckGetTargets(r, first)
    \/ \E r \in Requests : CheckCreateAlert(r)
    \/ \E r \in Requests : SubmitCreateAuditLog(r)

SpecInflight == InitInflight /\ [][NextInflight]_vars

\* ---------------------------------------------------------- the dashboard
\* The requests the dashboard reads are served until MaxReads of them
\* have been.
MaxReads == 2

\* The values Math.random() returns, in hundredths: 0, 0.5 and 0.99.
RandomDraws == {0, 50, 99}

\* DatabaseStorage.getDepartments (storage.ts:111-113): the active
\* departments; the one department of the model is active.
getDepartments == <<"d1">>

\* One element of depts.map in getDepartmentPerformance
\* (storage.ts:311-319); draw holds what the calls of Math.random()
\* return, in hundredths, in the order they are made.  The second draw
\* for the status is made only when the first is not above 0.7.
DepartmentScore(dept, draw) ==
    [id       |-> dept,
     score    |-> (draw.score * 40) \div 100 + 60,
     status   |-> IF draw.green > 70 THEN "green"
                  ELSE IF draw.amber > 40 THEN "amber" ELSE "red",
     kpiCount |-> (draw.kpiCount * 15) \div 100 + 10,
     trend    |-> (draw.trend * 20) \div 100 - 10]

\* DatabaseStorage.getDepartmentPerformance(year, quarter); neither
\* parameter is read.
getDepartmentPerformance(year, quarter, draws) ==
    [j \in DOMAIN getDepartments |->
        DepartmentScore(getDepartments[j], draws[j])]

\* DatabaseStorage.getKPIs(departmentId) (storage.ts:137-168): the active
\* KPIs joined with their pillar and department, of one department when
\* the id is given ("" when it is not), each with the status and progress
\* of lines 165-166.  Every KPI of the model is active.
getKPIs(departmentId) ==
    LET rows  == [k \in DOMAIN kpis |->
                     [id |-> k, pillarId |-> kpis[k].pillarId,
                      departmentId |-> kpis[k].departmentId,
                      status |-> "amber", progress |-> 75]]
        joins(row) == /\ row.pillarId \in Pillars
                      /\ row.departmentId \in Departments
                      /\ departmentId # "" => row.departmentId = departmentId
    IN  SelectSeq(rows, joins)

\* DatabaseStorage.getCriticalKPIs (storage.ts:341-344)
getCriticalKPIs == getKPIs("")

\* the answer of a route that reads: the JSON body, or 500 and a message
\* when the storage call throws
ReadResult(route, body, failed, log, message) ==
    IF failed
    THEN [response |-> Reply(route, 500, log),
          result   |-> <<[message |-> message]>>]
    ELSE [response |-> Reply(route, 200, ""), result |-> <<body>>]

\* GET /api/dashboard/departments/:year/:quarter (routes.ts:182-191);
\* inflight keeps the parameters of the request.
GetDepartmentPerformance(year, quarter, draws, down) ==
    LET r == ReadResult("GET /api/dashboard/departments/:year/:quarter",
                        getDepartmentPerformance(year, quarter, draws),
                        "getDepartments" \in down,
                        "Department performance error",
                        "Failed to fetch department performance")
    IN  /\ served' = served + 1
        /\ response' = r.response
        /\ result' = r.result
        /\ inflight' = <<[year |-> year, quarter |-> quarter]>>
        /\ UNCHANGED <<kpis, targets, actuals, alerts, auditLogs, engineCalls,
                       now>>

\* GET /api/kpis (routes.ts:215-224)
GetKPIs(departmentId, down) ==
    LET r == ReadResult("GET /api/kpis", getKPIs(departmentId),
                        "getKPIs" \in down, "KPIs error",
                        "Failed to fetch KPIs")
    IN  /\ served' = served + 1
        /\ response' = r.response
        /\ result' = r.result
        /\ inflight' = <<>>
        /\ UNCHANGED <<kpis, targets, actuals, alerts, auditLogs, engineCalls,
                       now>>

\* GET /api/dashboard/critical-kpis (routes.ts:193-202)
GetCriticalKPIs(down) ==
    LET r == ReadResult("GET /api/dashboard/critical-kpis", getCriticalKPIs,
                        "getKPIs" \in down, "Critical KPIs error",
                        "Failed to fetch critical KPIs")
    IN  /\ served' = served + 1
        /\ response' = r.response
        /\ result' = r.result
        /\ inflight' = <<>>
        /\ UNCHANGED <<kpis, targets, actuals, alerts, auditLogs, engineCalls,
                       now>>

\* the values submitted for the dashboard's KPI
DashboardValues == {30, 70, 75, 90, 130}

\* KPI 1 of department d1 with its target of 100 for Q1 2025 and one
\* approved submission against it.  No alert is stored.  The clock reads
\* 15 March 2025.
InitDashboard ==
    /\ kpis = <<[pillarId |-> "p1", departmentId |-> "d1"]>>
    /\ targets = <<[kpiId |-> 1, year |-> 2025, quarter |-> 1,
                    targetValue |-> 100,
                    threshold |-> [green |-> 80, amber |-> 60, red |-> 40]]>>
    /\ \E v \in DashboardValues :
          actuals = <<[kpiId |-> 1, targetId |-> 1, actualValue |-> v,
                       status |-> "approved"]>>
    /\ alerts = <<>>
    /\ auditLogs = <<[action |-> "submit", resourceType |-> "actual",
                      resourceId |-> 1]>>
    /\ engineCalls = <<1>>
    /\ now = StartNow
    /\ response = Reply("", 0, "")
    /\ served = 0
    /\ result = <<>>
    /\ inflight = <<>>

Reading == served < MaxReads

NextDashboard ==
    \/ /\ Reading
       /\ \E quarter \in {1, 2}, down \in SUBSET {"getDepartments"} :
             \E draws \in [DOMAIN getDepartments ->
                             [score : RandomDraws, green : RandomDraws,
                              amber : RandomDraws, kpiCount : RandomDraws,
                              trend : RandomDraws]] :
                GetDepartmentPerformance(2025, quarter, draws, down)
    \/ /\ Reading
       /\ \E departmentId \in {"", "d1", "d2"}, down \in SUBSET {"getKPIs"} :
             GetKPIs(departmentId, down)
    \/ /\ Reading
       /\ \E down \in SUBSET {"getKPIs"} : GetCriticalKPIs(down)

SpecDashboard == InitDashboard /\ [][NextDashboard]_vars

\* ----------------------------------------------------------- the calendar
\* analyticsService.checkThresholds(kpiId, actualValue), the service call
\* by itself; the route that makes it counts the invocation.
CheckThresholds(kpiId, actualValue, first, down) ==
    LET r == checkThresholds(alerts, kpiId, actualValue, first, down)
    IN  /\ served' = served + 1
        /\ alerts' = r.alerts
        /\ response' = Reply("checkThresholds", 0, r.log)
        /\ UNCHANGED <<kpis, targets, actuals, auditLogs, engineCalls, now,
                       result, inflight>>

\* The dates of 2025 the clock may read: the first and the last days of
\* every month.
CalendarDates ==
    {date \in {32 * (12 * 2025 + m) + d : m \in 0..11, d \in {1, 28, 30, 31}} :
        getDate(date) <= DaysInMonth(date \div 32)}

\* How the current quarter was submitted: once; twice, the later
\* submission replacing the earlier one; or twice, the later submission
\* rejected in review.
Resubmissions == {"once", "replaced", "rejected"}

\* The submissions stored by the date t, in the order they were made: one
\* approved Actual for each quarter from Q1 2024 (target 1) to the quarter
\* of t (target `current`), the values rising by 5 from 60, and the second
\* submission for the quarter of t, of 110.
SubmissionsBy(t, how) ==
    LET current == 4 * (getFullYear(t) - 2024) + CeilDiv3(getMonth(t) + 1)
        row(j, value, status) ==
            [kpiId |-> 1, targetId |-> j, actualValue |-> value,
             status |-> status]
        once == [j \in 1..current |-> row(j, 55 + 5 * j, "approved")]
    IN  IF how = "once" THEN once
        ELSE IF how = "replaced"
        THEN SubSeq(once, 1, current - 1)
                \o <<row(current, 110, "approved"), once[current]>>
        ELSE Append(once, row(current, 110, "rejected"))

\* KPI 1 with a target of 100 for each quarter of 2024 and 2025, the
\* submissions made by today's date, their audit log, and no alert (no
\* submission was below 60 or above 110).  The clock reads a date of 2025.
InitCalendar ==
    /\ kpis = <<[pillarId |-> "p1", departmentId |-> "d1"]>>
    /\ targets = [q \in 1..8 |->
                    [kpiId |-> 1,
                     year |-> 2024 + (q - 1) \div 4,
                     quarter |-> ((q - 1) % 4) + 1,
                     targetValue |-> 100,
                     threshold |-> [green |-> 80, amber |-> 60, red |-> 40]]]
    /\ now \in CalendarDates
    /\ \E how \in Resubmissions :
          /\ actuals = SubmissionsBy(now, how)
          /\ auditLogs =
                [j \in 1..Len(actuals) |->
                    [action |-> "submit", resourceType |-> "actual",
                     resourceId |-> j]]
                \o (IF how = "rejected"
                    THEN <<[action |-> "review", resourceType |-> "actual",
                            resourceId |-> Len(actuals)]>>
                    ELSE <<>>)
    /\ alerts = <<>>
    /\ engineCalls = [a \in 1..Len(actuals) |-> 1]
    /\ response = Reply("", 0, "")
    /\ served = 0
    /\ result = <<>>
    /\ inflight = <<>>

NextCalendar ==
    \/ /\ Serving
       /\ \E kpiId \in KpiRefs :
             \E hist \in SeriesOver(kpiId, HistoryPeriods) :
                \E down \in SUBSET {"getActuals"} :
                   GetForecast(kpiId, hist, down)
    \/ /\ Serving
       /\ \E kpiId \in KpiRefs, given \in BOOLEAN :
             \E scenarioData \in (IF given
                                  THEN {<<[name |-> "A", value |-> 120]>>}
                                  ELSE {<<>>}) :
                \E current \in CurrentRows(kpiId) :
                   \E down \in {{}, {"getKPI"}, {"getActuals"}} :
                      PostScenario(kpiId, given, scenarioData, current, down)
    \/ /\ Serving
       /\ \E kpiId \in KpiRefs :
             \E hist \in SeriesOver(kpiId, HistoryPeriods) :
                \E down \in SUBSET {"getActuals", "getKPI", "createAlert"} :
                   DetectAnomalies(kpiId, hist, down)
    \/ /\ Serving
       /\ \E kpiId \in KpiRefs, actualValue \in ActualValues :
             \E first \in FirstRows(kpiId) :
                \E down \in {{}, {"getKPI"}, {"getTargets"}, {"createAlert"}} :
                   CheckThresholds(kpiId, actualValue, first, down)

SpecCalendar == InitCalendar /\ [][NextCalendar]_vars

\* ================================================================= claims
\* A step that served the request `route`.
Served(route) == served' = served + 1 /\ response'.route = route

\* A POST /api/actuals step that stored its Actual; the Actual it stored.
Submitted == Served("POST /api/actuals") /\ Len(actuals') = Len(actuals) + 1
NewActual == actuals'[Len(actuals')]

\* The type and severity of the alerts a step added, in order.
NewAlertKinds ==
    [i \in 1..(Len(alerts') - Len(alerts)) |->
        [type     |-> alerts'[Len(alerts) + i].type,
         severity |-> alerts'[Len(alerts) + i].severity]]

Kind(type, severity) == [type |-> type, severity |-> severity]

\* The alerts the claimed decision order asks for, for a value against a
\* target: at most one, the first of the three comparisons that matches.
ClaimedKinds(actualValue, target) ==
    LET t  == target.targetValue
        th == target.threshold
    IN  CASE 100 * actualValue < th.red * t    -> <<Kind("threshold_breach", "critical")>>
          [] 100 * actualValue >= th.red * t /\ 100 * actualValue < th.amber * t
                                               -> <<Kind("threshold_breach", "high")>>
          [] 100 * actualValue >= th.red * t /\ 100 * actualValue >= th.amber * t
             /\ 10 * actualValue > 11 * t      -> <<Kind("target_exceeded", "low")>>
          [] OTHER                             -> <<>>

\* The target of the claim's example: thresholds {80, 60, 40}, target 100.
ExampleTarget(target) ==
    /\ target.targetValue = 100
    /\ target.threshold = [green |-> 80, amber |-> 60, red |-> 40]

\* A submission whose threshold check found the KPI and a Target and met no
\* storage failure; the targets it may have been decided against.
CheckedAgainst ==
    IF /\ Submitted
       /\ response'.log \in {"", "Alert created"}
       /\ getKPI(NewActual.kpiId) # {}
    THEN getTargets(NewActual.kpiId, getFullYear(now), CeilDiv3(getMonth(now) + 1))
    ELSE {}

\* C1 as stated, with its example (70 against thresholds {80, 60, 40} of
\* target 100 raises a high alert).
C1_AsStated ==
    [][CheckedAgainst # {} =>
          /\ \E t \in CheckedAgainst :
                NewAlertKinds = ClaimedKinds(NewActual.actualValue, targets[t])
          /\ (\A t \in CheckedAgainst : ExampleTarget(targets[t])) =>
                   /\ NewActual.actualValue = 30 =>
                         NewAlertKinds = <<Kind("threshold_breach", "critical")>>
                   /\ NewActual.actualValue = 70 =>
                         NewAlertKinds = <<Kind("threshold_breach", "high")>>
                   /\ NewActual.actualValue = 115 =>
                         NewAlertKinds = <<Kind("target_exceeded", "low")>>
                   /\ NewActual.actualValue = 90 => NewAlertKinds = <<>>]_vars

\* C1 (amended): a threshold check that finds the KPI and a Target adds at
\* most one alert, the first match of: value < red% of target -> critical
\* threshold_breach; value < amber% of target -> high threshold_breach;
\* value > 1.10 x target -> low target_exceeded; else none.  With thresholds
\* {80, 60, 40} and target 100: 30 -> critical, 50 -> high, 115 -> low,
\* 70 and 90 -> none.
C1_FirstMatch ==
    [][CheckedAgainst # {} =>
          /\ Len(alerts') <= Len(alerts) + 1
          /\ \E t \in CheckedAgainst :
                NewAlertKinds = ClaimedKinds(NewActual.actualValue, targets[t])
          /\ (\A t \in CheckedAgainst : ExampleTarget(targets[t])) =>
                   /\ NewActual.actualValue = 30 =>
                         NewAlertKinds = <<Kind("threshold_breach", "critical")>>
                   /\ NewActual.actualValue = 50 =>
                         NewAlertKinds = <<Kind("threshold_breach", "high")>>
                   /\ NewActual.actualValue = 115 =>
                         NewAlertKinds = <<Kind("target_exceeded", "low")>>
                   /\ NewActual.actualValue \in {70, 90} => NewAlertKinds = <<>>]_vars

\* A submission of 50 against the example target has raised a high alert.
C1_Witness ==
    /\ response = Reply("POST /api/actuals", 201, "Alert created")
    /\ actuals[Len(actuals)].actualValue = 50
    /\ alerts[Len(alerts)].severity = "high"
    /\ alerts[Len(alerts)].type = "threshold_breach"

\* C2 as stated: once an alert is resolved it stays resolved, whatever
\* alert updates follow.
C2_ResolvedIsTerminal ==
    [][\A a \in DOMAIN alerts :
          alerts[a].isResolved => alerts'[a].isResolved]_vars

\* What mark-read (PATCH with the body {isRead: true}) by user u at time t
\* makes of the alert table `store`.
MarkRead(store, t, u, id) ==
    PatchAlertResult(store, t, u, id, "true", "undefined", {}).alerts

\* C3: mark-read applied twice (by any users, at any times) leaves the
\* alert table as mark-read applied once does, the alert then being read,
\* and mark-read changes no alert's isResolved, resolvedBy or resolvedAt.
C3_MarkReadIdempotent ==
    \A id \in AlertRefs, u1 \in Users, u2 \in Users :
       LET once  == MarkRead(alerts, now, u1, id)
           twice == MarkRead(once, now + 1, u2, id)
       IN  /\ twice = once
           /\ DOMAIN once = DOMAIN alerts
           /\ id \in DOMAIN alerts => once[id].isRead
           /\ \A a \in DOMAIN alerts :
                 /\ once[a].isResolved = alerts[a].isResolved
                 /\ once[a].resolvedBy = alerts[a].resolvedBy
                 /\ once[a].resolvedAt = alerts[a].resolvedAt

\* The resolved alert has been marked read; its resolver and resolution
\* time are the ones recorded before.
C3_Witness ==
    /\ response = Reply("PATCH /api/alerts/:id", 200, "")
    /\ alerts[1].isRead
    /\ alerts[1].isResolved
    /\ alerts[1].resolvedBy = "u1"
    /\ alerts[1].resolvedAt = StartNow - 1

\* C4 as stated: an alert is resolved exactly when a resolver and a
\* resolution time are recorded.
C4_ResolverIffResolved ==
    \A a \in DOMAIN alerts :
       alerts[a].isResolved <=>
          (alerts[a].resolvedBy # "null" /\ alerts[a].resolvedAt # NullTime)

\* C5: every alert a step adds to the store is unread and unresolved,
\* whichever operation added it.
C5_CreatedUnreadUnresolved ==
    [][\A a \in (DOMAIN alerts') \ (DOMAIN alerts) :
          ~alerts'[a].isRead /\ ~alerts'[a].isResolved]_vars

\* detectAnomalies has just stored an alert, unread and unresolved, next
\* to the one checkThresholds stored.
C5_Witness ==
    /\ response = Reply("detectAnomalies", 0, "true")
    /\ Len(alerts) = 2
    /\ alerts[1].type = "threshold_breach"
    /\ alerts[2].type = "anomaly_detected"
    /\ ~alerts[2].isRead /\ ~alerts[2].isResolved

\* C6: the alert store grows only in a step of POST /api/actuals that ran
\* the Alert Engine or in a step of detectAnomalies; no other request adds
\* or removes a record.
C6_OnlyEnginesCreate ==
    [][Len(alerts') # Len(alerts) =>
          /\ Len(alerts') = Len(alerts) + 1
          /\ \/ Submitted /\ engineCalls' # engineCalls
             \/ Served("detectAnomalies")]_vars

\* An alert update was answered 200 and the store still holds the one
\* alert it held, as it was.
C6_Witness ==
    /\ response = Reply("PATCH /api/alerts/:id", 200, "")
    /\ Len(alerts) = 1
    /\ ~alerts[1].isRead /\ alerts[1].resolvedAt = StartNow - 1
    /\ served = 1

\* The current reporting quarter's targets of a KPI, as checkThresholds
\* looks them up.
CurrentTargets(kpiId) ==
    getTargets(kpiId, getFullYear(now), CeilDiv3(getMonth(now) + 1))

\* C7: when the KPI lookup returns nothing or the KPI has no Target for
\* the current period, checkThresholds leaves the alert store as it is and
\* returns without an error, for every value submitted.
C7_NothingToEvaluate ==
    \A kpiId \in KpiRefs, v \in ActualValues, first \in {0} \cup DOMAIN targets,
       down \in {{}, {"createAlert"}} :
       (getKPI(kpiId) = {} \/ CurrentTargets(kpiId) = {}) =>
          LET r == checkThresholds(alerts, kpiId, v, first, down)
          IN  ~r.raised /\ r.alerts = alerts /\ r.log = ""

\* A value that breaches every threshold was submitted for a KPI that has
\* a row but no Target in the current quarter: answered 201, no alert added.
C7_Witness ==
    /\ response = Reply("POST /api/actuals", 201, "")
    /\ Len(actuals) = 4
    /\ actuals[4].actualValue = 30
    /\ getKPI(actuals[4].kpiId) # {}
    /\ CurrentTargets(actuals[4].kpiId) = {}
    /\ Len(alerts) = 1

\* The submissions whose threshold check has an alert to store: the KPI
\* and a Target are found and the decision names an alert type.
AlertDue(body, first) ==
    /\ body.valid
    /\ getKPI(body.kpiId) # {}
    /\ first \in CurrentTargets(body.kpiId)
    /\ ThresholdDecision(body.actualValue, targets[first]).alertType # ""

\* C8 as stated: when storing the alert fails during a submission's
\* threshold check, the submission handler observes the error (its catch
\* block answers 400).
C8_FailurePropagates ==
    [][Submitted /\ response'.log = "Threshold check error: createAlert"
          => response'.status = 400]_vars

\* C8 (amended): when storing the alert fails, checkThresholds logs the
\* error and returns normally; the handler goes on as after a check that
\* raised no alert: the Actual is stored, no alert is, and the answer is
\* 201 with the audit log written unless the audit log fails itself.
C8_FailureSwallowed ==
    \A u \in Users, body \in ActualBodies, first \in DOMAIN targets :
       AlertDue(body, first) =>
          LET c    == checkThresholds(alerts, body.kpiId, body.actualValue,
                                      first, {"createAlert"})
              r    == PostActualsResult(u, body, first, {"createAlert"})
              both == PostActualsResult(u, body, first,
                                        {"createAlert", "createAuditLog"})
          IN  /\ ~c.raised /\ c.alerts = alerts
              /\ c.log = "Threshold check error: createAlert"
              /\ r.response = Reply("POST /api/actuals", 201, c.log)
              /\ Len(r.actuals) = Len(actuals) + 1
              /\ r.alerts = alerts
              /\ Len(r.auditLogs) = Len(auditLogs) + 1
              /\ both.response.status = 400
              /\ both.auditLogs = auditLogs /\ both.alerts = alerts
              /\ Len(both.actuals) = Len(actuals) + 1

\* A submission of 30 whose alert could not be stored was answered 201:
\* the Actual and its audit log are there, the alert is not.
C8_Witness ==
    /\ response = Reply("POST /api/actuals", 201, "Threshold check error: createAlert")
    /\ Len(actuals) = 4 /\ actuals[4].actualValue = 30
    /\ Len(alerts) = 1
    /\ Len(auditLogs) = 1 /\ auditLogs[1].action = "submit"

\* C9 as stated: POST /api/actuals answers success exactly when the Actual
\* was stored.
C9_OutcomeFollowsPrimaryWrite ==
    [][Served("POST /api/actuals") =>
          (response'.status = 201 <=> Len(actuals') = Len(actuals) + 1)]_vars

\* C10: the Alert Engine runs only in the step that stores an Actual, for
\* that Actual, and no Actual is ever evaluated more than once.
C10_OncePerActual ==
    /\ [](\A id \in DOMAIN engineCalls :
             id \in DOMAIN actuals /\ engineCalls[id] <= 1)
    /\ [][engineCalls' # engineCalls =>
             /\ Submitted
             /\ engineCalls' = engineCalls @@ (Len(actuals') :> 1)]_vars

\* The pending Actual has been reviewed (rejected) and was evaluated once.
C10_Witness ==
    /\ response = Reply("PATCH /api/actuals/:id/review", 200, "")
    /\ Len(actuals) = 3
    /\ actuals[3].status = "rejected"
    /\ engineCalls[3] = 1

\* ------------------------------------------------ the analytics engines
\* The series the history loop can gather for the KPI in this state.
HistoriesOf(kpiId) == SeriesOver(kpiId, HistoryPeriods)

DetectDowns == SUBSET {"getActuals", "getKPI", "createAlert"}

\* The claimed test on the last three points of a series, from the mean
\* and the population variance of the baseline: with m2 twice the mean,
\* dev2 twice the deviation of the recent point and var4 four times the
\* variance,  |recent - mean| > 2 * stddev  is  dev2^2 > 4 * var4.
ClaimedOutlier(hist) ==
    LET n      == Len(hist)
        recent == hist[n]
        a      == hist[n - 2]
        b      == hist[n - 1]
        m2     == a + b
        dev2   == 2 * recent - m2
        var4   == ((2 * a - m2) * (2 * a - m2) + (2 * b - m2) * (2 * b - m2)) \div 2
    IN  dev2 * dev2 > 4 * var4

\* C12: with fewer than 3 points detectAnomalies returns false and adds
\* no alert, whatever fails; with 3 or more it returns true only when the
\* last point is more than 2 population standard deviations from the mean
\* of the two points before it, and, when no storage call fails, exactly
\* then; on a baseline of two equal values that is exactly when the last
\* point differs from them.
C12_OutlierTest ==
    \A kpiId \in KpiRefs :
       \A hist \in HistoriesOf(kpiId) :
          LET n    == Len(hist)
              calm == detectAnomalies(alerts, kpiId, hist, {})
          IN  /\ \A down \in DetectDowns :
                    LET r == detectAnomalies(alerts, kpiId, hist, down)
                    IN  /\ n < 3 => ~r.isAnomaly /\ r.alerts = alerts
                        /\ n >= 3 /\ r.isAnomaly => ClaimedOutlier(hist)
              /\ n >= 3 => (calm.isAnomaly <=> ClaimedOutlier(hist))
              /\ n >= 3 /\ hist[n - 2] = hist[n - 1]
                    => (calm.isAnomaly <=> hist[n] # hist[n - 1])

\* The detector has answered true for a series whose baseline is two
\* equal values.
C12_Witness ==
    /\ response = Reply("detectAnomalies", 0, "true")
    /\ HistoriesOf(1) = {<<50, 50, 100>>}
    /\ Len(alerts) = 1

\* C13 as stated: the detector flags the last value of [50, 52, 90], and
\* a run of it on [50, 51, 52] answers false.
C13_AsStated ==
    /\ [](\A kpiId \in KpiRefs :
             \A hist \in HistoriesOf(kpiId) :
                hist = <<50, 52, 90>>
                   => detectAnomalies(alerts, kpiId, hist, {}).isAnomaly)
    /\ [][(/\ Served("detectAnomalies")
           /\ HistoriesOf(1) = {<<50, 51, 52>>}
           /\ HistoriesOf(2) = {<<>>})
             => response'.log = "false"]_vars

\* C13 (amended): the detector flags the last value of [50, 52, 90], and
\* it flags the last value of [50, 51, 52] as well (baseline mean 50.5,
\* stddev 0.5: 1.5 > 1).
C13_BothFlagged ==
    \A kpiId \in KpiRefs :
       \A hist \in HistoriesOf(kpiId) :
          hist \in {<<50, 52, 90>>, <<50, 51, 52>>}
             => detectAnomalies(alerts, kpiId, hist, {}).isAnomaly

\* The detector has answered true on [50, 51, 52] and stored its alert.
C13_Witness ==
    /\ response = Reply("detectAnomalies", 0, "true")
    /\ HistoriesOf(1) = {<<50, 51, 52>>}
    /\ Len(alerts) = 1 /\ alerts[1].type = "anomaly_detected"

\* C14: a run of detectAnomalies that returns true has added exactly one
\* alert, of type anomaly_detected and severity medium, for a KPI; a run
\* that returns false has added none.
C14_TrueIffOneAlert ==
    [][Served("detectAnomalies") =>
          IF response'.log = "true"
          THEN /\ Len(alerts') = Len(alerts) + 1
               /\ SubSeq(alerts', 1, Len(alerts)) = alerts
               /\ alerts'[Len(alerts')].type = "anomaly_detected"
               /\ alerts'[Len(alerts')].severity = "medium"
               /\ alerts'[Len(alerts')].kpiId \in KpiRefs
          ELSE alerts' = alerts]_vars

IsLeastSquaresLine(hist, slope, intercept) ==
    LET n == Len(hist)
        residual(j) == hist[j] * intercept.den * slope.den
                       - intercept.num * slope.den
                       - slope.num * intercept.den * (j - 1)
    IN  /\ slope.den > 0 /\ intercept.den > 0
        /\ Reduce([j \in 1..n |-> residual(j)], 0) = 0
        /\ Reduce([j \in 1..n |-> (j - 1) * residual(j)], 0) = 0

\* The point p (a fraction) is the line at index x, or 0 if the line is
\* below 0 there.
IsClampedLineAt(p, slope, intercept, x) ==
    LET line == intercept.num * slope.den + slope.num * intercept.den * x
    IN  /\ p.den > 0
        /\ p.num * intercept.den * slope.den = p.den * Max(0, line)

\* C16: for every series of n >= 2 points the forecast has exactly 4
\* points, the i-th (i = 0..3) being the least-squares line of the series
\* at index n + i, or 0 where the line is negative, with confidence 1.0,
\* 0.9, 0.8, 0.7.
C16_FourPoints ==
    \A kpiId \in KpiRefs :
       \A hist \in HistoriesOf(kpiId) :
          Len(hist) >= 2 =>
             LET r    == GetForecastResult(kpiId, hist, {})
                 body == r.result[1]
                 fit  == LinearFit(hist)
             IN  /\ r.response.status = 200
                 /\ Len(body.forecast) = 4
                 /\ IsLeastSquaresLine(hist, fit.slope, fit.intercept)
                 /\ \A i \in 0..3 :
                       /\ IsClampedLineAt(body.forecast[i + 1].predictedValue,
                                          fit.slope, fit.intercept,
                                          Len(hist) + i)
                       /\ body.forecast[i + 1].confidence = 100 - 10 * i
                       /\ body.forecast[i + 1].confidence >= 60

\* A forecast was answered for the falling series [100, 50, 0]: four
\* points, the last one held at 0 with confidence 0.7.
C16_Witness ==
    /\ response = Reply("GET /api/analytics/forecast/:kpiId", 200, "")
    /\ HistoriesOf(1) = {<<100, 50, 0>>}
    /\ Len(result[1].forecast) = 4
    /\ result[1].forecast[4].predictedValue.num = 0
    /\ result[1].forecast[4].confidence = 70

\* The fraction f is the whole number v.
IsWhole(f, v) == f.den > 0 /\ f.num = v * f.den

\* C17 as stated: on [10, 20, 30, 40] the fit has slope 10 and intercept
\* 10, and the forecast answered has 60 as its first point, with
\* confidence 1.0, and the trend increasing.
C17_AsStated ==
    [][(/\ Served("GET /api/analytics/forecast/:kpiId")
        /\ response'.status = 200
        /\ result'[1].kpiId = 1
        /\ HistoriesOf(1) = {<<10, 20, 30, 40>>})
          => LET fit == LinearFit(<<10, 20, 30, 40>>)
             IN  /\ IsWhole(fit.slope, 10) /\ IsWhole(fit.intercept, 10)
                 /\ IsWhole(result'[1].forecast[1].predictedValue, 60)
                 /\ result'[1].forecast[1].confidence = 100
                 /\ result'[1].trend = "increasing"]_vars

\* C17 (amended): on [10, 20, 30, 40] the fit has slope 10 and intercept
\* 10, the first forecast point (period 5, index 4) is 50 with confidence
\* 1.0, the second is 60 with confidence 0.9, and the trend is increasing.
C17_NextIsFifty ==
    \A kpiId \in KpiRefs :
       \A hist \in HistoriesOf(kpiId) :
          hist = <<10, 20, 30, 40>> =>
             LET body == GetForecastResult(kpiId, hist, {}).result[1]
                 fit  == LinearFit(hist)
             IN  /\ IsWhole(fit.slope, 10) /\ IsWhole(fit.intercept, 10)
                 /\ IsWhole(body.forecast[1].predictedValue, 50)
                 /\ body.forecast[1].confidence = 100
                 /\ IsWhole(body.forecast[2].predictedValue, 60)
                 /\ body.forecast[2].confidence = 90
                 /\ body.trend = "increasing"

\* The forecast of [10, 20, 30, 40] was answered: first point 50.
C17_Witness ==
    /\ response = Reply("GET /api/analytics/forecast/:kpiId", 200, "")
    /\ HistoriesOf(1) = {<<10, 20, 30, 40>>}
    /\ IsWhole(result[1].forecast[1].predictedValue, 50)
    /\ result[1].trend = "increasing"

\* C18: the trend is increasing exactly when the fitted slope is above
\* 0.5, decreasing exactly when it is below -0.5 and stable otherwise (at
\* 0.5 and -0.5 too), and the recommendation is the template of the trend.
C18_TrendBySlope ==
    \A kpiId \in KpiRefs :
       \A hist \in HistoriesOf(kpiId) :
          Len(hist) >= 2 =>
             LET body  == GetForecastResult(kpiId, hist, {}).result[1]
                 slope == LinearFit(hist).slope
             IN  /\ IsLeastSquaresLine(hist, slope, LinearFit(hist).intercept)
                 /\ body.trend = "increasing" <=> 2 * slope.num > slope.den
                 /\ body.trend = "decreasing" <=> 2 * slope.num < 0 - slope.den
                 /\ body.trend = "stable"
                       <=> /\ 2 * slope.num <= slope.den
                           /\ 2 * slope.num >= 0 - slope.den
                 /\ body.trend = "increasing" =>
                       body.recommendation = "Performance is trending upward. Continue current strategies and consider scaling successful initiatives."
                 /\ body.trend = "decreasing" =>
                       body.recommendation = "Performance is trending downward. Consider implementing corrective measures to improve KPI performance."
                 /\ body.trend = "stable" =>
                       body.recommendation = "Performance is stable. Monitor for any changes and consider optimization opportunities."

\* The forecast of [50, 50, 51], whose fitted slope is exactly 0.5, was
\* answered with the trend stable.
C18_Witness ==
    /\ response = Reply("GET /api/analytics/forecast/:kpiId", 200, "")
    /\ HistoriesOf(1) = {<<50, 50, 51>>}
    /\ 2 * LinearFit(<<50, 50, 51>>).slope.num = LinearFit(<<50, 50, 51>>).slope.den
    /\ result[1].trend = "stable"

\* C19: a scenario test answered while the current quarter's Actual is
\* 100 gives every scenario of 120 changePercent 20 (the model keeps it;
\* confidence 1 - 20/100 shows it), impact positive and projectedOutcome
\* 122.4.
C19_ExampleOutcome ==
    [][(/\ Served("POST /api/analytics/scenario")
        /\ response'.status = 200
        /\ result'[1].kpiId = 1
        /\ \A a \in CurrentRows(1) : a # 0 /\ actuals[a].actualValue = 100)
          => \A j \in DOMAIN result'[1].scenarios :
                LET sc == result'[1].scenarios[j]
                IN  sc.inputValue = 120 =>
                       /\ IsWhole(sc.changePercent, 20)
                       /\ sc.confidence = 80
                       /\ sc.impact = "positive"
                       /\ sc.projectedOutcome = 12240]_vars

\* C20: when the KPI has no Actual for the current quarter, or one of
\* value 0, a scenario test of a known KPI is answered 200 and for every
\* scenario changePercent is 0, impact is neutral, confidence is 1 and
\* projectedOutcome is the input value.
C20_ZeroCurrent ==
    \A kpiId \in KpiRefs, scenarioData \in ScenarioInputs :
       \A current \in CurrentRows(kpiId) :
          (getKPI(kpiId) # {}
           /\ (current = 0 \/ actuals[current].actualValue = 0)) =>
             LET r == PostScenarioResult(kpiId, TRUE, scenarioData, current, {})
             IN  /\ r.response.status = 200
                 /\ Len(r.result[1].scenarios) = Len(scenarioData)
                 /\ \A j \in DOMAIN scenarioData :
                       LET sc == r.result[1].scenarios[j]
                       IN  /\ sc.changePercent.num = 0
                           /\ sc.impact = "neutral"
                           /\ sc.confidence = 100
                           /\ sc.inputValue = scenarioData[j].value
                           /\ sc.projectedOutcome = 100 * sc.inputValue

\* A scenario of 120 was tested while the current quarter's Actual is 0:
\* answered 200, neutral, projected outcome 120.
C20_Witness ==
    /\ response = Reply("POST /api/analytics/scenario", 200, "")
    /\ \E a \in CurrentRows(1) : a # 0 /\ actuals[a].actualValue = 0
    /\ Len(result[1].scenarios) = 1
    /\ result[1].scenarios[1].inputValue = 120
    /\ result[1].scenarios[1].impact = "neutral"
    /\ result[1].scenarios[1].projectedOutcome = 12000

\* ------------------------------------------------ submissions in flight
\* What request r gets when it is the only one: the whole handler run in
\* one piece on its body, and the alerts that run adds.
Alone(r) ==
    PostActualsResult(inflight[r].u, inflight[r].body, 0, inflight[r].down)

AloneAlerts(r) == SubSeq(Alone(r).alerts, Len(alerts) + 1, Len(Alone(r).alerts))

\* The alerts stored for the KPI of request r.
ProducedFor(r) ==
    SelectSeq(alerts, LAMBDA a : a.kpiId = inflight[r].body.kpiId)

\* C11: under every interleaving of two submissions for different KPIs,
\* a submission that has been answered has produced exactly the alert (or
\* none) it produces when it runs alone, was answered as when alone, and
\* was evaluated against its own submitted value.
C11_Independent ==
    \A r \in Requests :
       inflight[r].pc = "done" =>
          /\ ProducedFor(r) = AloneAlerts(r)
          /\ inflight[r].status = Alone(r).response.status
          /\ inflight[r].log = Alone(r).response.log
          /\ inflight[r].actual # 0
                => inflight[r].actualValue = inflight[r].body.actualValue

\* Both submissions are answered; request 1 stored its Actual first and
\* request 2 its alert first: critical for 30 against KPI 1's target of
\* 100, target exceeded for 70 against KPI 2's target of 50.
C11_Witness ==
    /\ \A r \in Requests : inflight[r].pc = "done" /\ inflight[r].status = 201
    /\ Len(actuals) = 2 /\ actuals[1].kpiId = 1 /\ actuals[1].actualValue = 30
    /\ actuals[2].actualValue = 70
    /\ Len(alerts) = 2
    /\ alerts[1].kpiId = 2 /\ alerts[1].type = "target_exceeded"
    /\ alerts[2].kpiId = 1 /\ alerts[2].severity = "critical"

\* ---------------------------------------------------- the scenario engine
\* Hypothetical values around a current value of 100: a change of -100,
\* -6, -5, 0, 5, 6 and 20 percent.
ImpactValues == {0, 94, 95, 100, 105, 106, 120}

\* The answer to a scenario test of the single scenario of this value.
ScenarioAnswer(kpiId, value, current) ==
    PostScenarioResult(kpiId, TRUE, <<[name |-> "A", value |-> value]>>,
                       current, {}).result[1].scenarios[1]

\* 100 * max(0.5, 1 - |changePercent| / 100), times the denominator of
\* changePercent
ClaimedConfidence(change) ==
    Max(50 * change.den, 100 * change.den - Abs(change.num))

\* impact is positive exactly when changePercent > 5, negative exactly
\* when changePercent < -5 and neutral otherwise
ImpactByChange(sc) ==
    /\ sc.changePercent.den > 0
    /\ sc.impact = "positive" <=> sc.changePercent.num > 5 * sc.changePercent.den
    /\ sc.impact = "negative"
          <=> sc.changePercent.num < 0 - 5 * sc.changePercent.den
    /\ sc.impact = "neutral"
          <=> /\ sc.changePercent.num <= 5 * sc.changePercent.den
              /\ sc.changePercent.num >= 0 - 5 * sc.changePercent.den

\* C21 as stated: every scenario of an answered scenario test has its
\* impact by changePercent (> 5, < -5) and reports the confidence
\* max(0.5, 1 - |changePercent| / 100) itself.
C21_AsStated ==
    [][(Served("POST /api/analytics/scenario") /\ response'.status = 200)
          => \A j \in DOMAIN result'[1].scenarios :
                LET sc == result'[1].scenarios[j]
                IN  /\ ImpactByChange(sc)
                    /\ sc.confidence * sc.changePercent.den
                          = ClaimedConfidence(sc.changePercent)
                    /\ sc.confidence >= 50 /\ sc.confidence <= 100]_vars

\* C21 (amended): for every scenario with a numeric value, impact is
\* positive exactly when changePercent > 5, negative exactly when
\* changePercent < -5 and neutral otherwise (at 5 and -5 too), and the
\* reported confidence is max(0.5, 1 - |changePercent| / 100) rounded to
\* 2 decimals, hence between 0.5 and 1.
C21_ImpactAndConfidence ==
    \A kpiId \in KpiRefs, value \in ImpactValues :
       \A current \in CurrentRows(kpiId) :
          getKPI(kpiId) # {} =>
             LET sc     == ScenarioAnswer(kpiId, value, current)
                 den    == sc.changePercent.den
                 exact  == ClaimedConfidence(sc.changePercent)
             IN  /\ ImpactByChange(sc)
                 /\ 2 * sc.confidence * den - den <= 2 * exact
                 /\ 2 * exact < 2 * sc.confidence * den + den
                 /\ sc.confidence >= 50 /\ sc.confidence <= 100

\* A scenario of 120 was tested while the current quarter's Actual is 90:
\* changePercent 33.33.., impact positive, confidence reported as 0.67.
C21_Witness ==
    /\ response = Reply("POST /api/analytics/scenario", 200, "")
    /\ \E a \in CurrentRows(1) : a # 0 /\ actuals[a].actualValue = 90
    /\ Len(result[1].scenarios) = 1
    /\ result[1].scenarios[1].inputValue = 120
    /\ result[1].scenarios[1].impact = "positive"
    /\ result[1].scenarios[1].confidence = 67

\* ---------------------------------------------------------- the dashboard
\* C22: a department-performance request answered right after another one
\* for the same year and quarter, on the same stored state, gets the same
\* body: score, status, KPI count and trend of every department.
C22_Deterministic ==
    [][(/\ Served("GET /api/dashboard/departments/:year/:quarter")
        /\ response'.status = 200
        /\ response = Reply("GET /api/dashboard/departments/:year/:quarter",
                            200, "")
        /\ inflight' = inflight
        /\ <<kpis', targets', actuals', alerts'>>
              = <<kpis, targets, actuals, alerts>>)
          => result' = result]_vars

\* The Threshold Evaluator on an actual value against a target: the band
\* and the progress.
EvaluatedStatus(actualValue, target) ==
    IF 100 * actualValue >= target.threshold.green * target.targetValue
    THEN "green"
    ELSE IF 100 * actualValue >= target.threshold.amber * target.targetValue
    THEN "amber" ELSE "red"

EvaluatedProgress(actualValue, target) ==
    LET rounded == RoundHundredths(actualValue, target.targetValue)
    IN  Max(0, IF rounded < 100 THEN rounded ELSE 100)

\* C23: every KPI that GET /api/kpis or the critical-KPI list reports,
\* and that has one Target for the current quarter with one Actual
\* against it, is reported with the evaluator's status and progress for
\* that Actual and Target.
C23_StatusFromEvaluator ==
    [][(/\ \/ Served("GET /api/kpis")
           \/ Served("GET /api/dashboard/critical-kpis")
        /\ response'.status = 200)
          => \A j \in DOMAIN result'[1] :
                LET item == result'[1][j]
                    ts   == CurrentTargets(item.id)
                    as   == CurrentRows(item.id)
                IN  \A t \in ts, a \in as :
                       (ts = {t} /\ as = {a} /\ a # 0) =>
                          /\ item.status
                                = EvaluatedStatus(actuals[a].actualValue,
                                                  targets[t])
                          /\ item.progress
                                = EvaluatedProgress(actuals[a].actualValue,
                                                    targets[t])]_vars

\* ------------------------------------------------- the evaluation core
\* The alert store after a step is the store before it, with at most one
\* alert more.
AtMostOneAlertAdded ==
    \/ alerts' = alerts
    \/ /\ Len(alerts') = Len(alerts) + 1
       /\ SubSeq(alerts', 1, Len(alerts)) = alerts

\* C24: a call of checkThresholds or of detectAnomalies leaves the KPI,
\* Target and Actual stores and the audit log as they are and adds at most
\* one alert, changing no stored alert; a forecast and a scenario test
\* leave every store, the alert store included, as it is.
C24_EvaluationFrame ==
    [][/\ (Served("checkThresholds") \/ Served("detectAnomalies")) =>
             /\ <<kpis', targets', actuals', auditLogs'>>
                   = <<kpis, targets, actuals, auditLogs>>
             /\ AtMostOneAlertAdded
       /\ (\/ Served("GET /api/analytics/forecast/:kpiId")
           \/ Served("POST /api/analytics/scenario")) =>
             <<kpis', targets', actuals', alerts', auditLogs'>>
                = <<kpis, targets, actuals, alerts, auditLogs>>]_vars

\* checkThresholds has run for a value of 30 and stored its one alert;
\* the eight targets and the submissions are as they were.
C24_Witness ==
    /\ response = Reply("checkThresholds", 0, "Alert created")
    /\ Len(alerts) = 1 /\ alerts[1].severity = "critical"
    /\ Len(targets) = 8
    /\ \E how \in Resubmissions : actuals = SubmissionsBy(now, how)
    /\ Len(kpis) = 1

\* -------------------------------------------------- the review lifecycle
\* C25: every Actual a step stores has status pending, and a step that
\* changes the status of a stored Actual changes it from pending to
\* approved or to rejected (so approved and rejected are final).
C25_ReviewLifecycle ==
    [][/\ \A a \in (DOMAIN actuals') \ (DOMAIN actuals) :
             actuals'[a].status = "pending"
       /\ \A a \in DOMAIN actuals :
             actuals'[a].status # actuals[a].status =>
                /\ actuals[a].status = "pending"
                /\ actuals'[a].status \in {"approved", "rejected"}]_vars

\* ------------------------------------------- one value for each period
\* The most recent non-rejected submission for the KPI in the period
\* <<year, quarter>> (0 when there is none).  Rows are numbered in the
\* order they were inserted, which is the order of their submissionDate.
CurrentSubmission(kpiId, period) ==
    LET live == {a \in getActuals(kpiId, period[1], period[2]) :
                    actuals[a].status # "rejected"}
    IN  IF live = {} THEN 0 ELSE CHOOSE a \in live : \A b \in live : b <= a

RECURSIVE CurrentSeries(_, _)
\* The values of the most recent non-rejected submissions over the
\* periods ps, a period without one left out.
CurrentSeries(kpiId, ps) ==
    IF ps = <<>> THEN <<>>
    ELSE LET a    == CurrentSubmission(kpiId, Head(ps))
             rest == CurrentSeries(kpiId, Tail(ps))
         IN  IF a = 0 THEN rest ELSE <<actuals[a].actualValue>> \o rest

\* C26: the forecast answered is the forecast of the series of the most
\* recent non-rejected submissions of the periods the history covers, the
\* anomaly detector answers for that series, and a scenario test measures
\* the change against the most recent non-rejected submission of the
\* current quarter.
C26_CurrentSubmissionUsed ==
    [][/\ (Served("GET /api/analytics/forecast/:kpiId")
           /\ response'.status = 200) =>
             result' = GetForecastResult(
                          result'[1].kpiId,
                          CurrentSeries(result'[1].kpiId, HistoryPeriods),
                          {}).result
       /\ (Served("detectAnomalies") /\ response'.log = "true") =>
             \E kpiId \in KpiRefs :
                detectAnomalies(alerts, kpiId,
                                CurrentSeries(kpiId, HistoryPeriods),
                                {}).isAnomaly
       /\ (Served("POST /api/analytics/scenario")
           /\ response'.status = 200) =>
             LET kpiId   == result'[1].kpiId
                 current == CurrentSubmission(kpiId,
                               <<getFullYear(now), CeilDiv3(getMonth(now) + 1)>>)
             IN  current # 0 =>
                    \A j \in DOMAIN result'[1].scenarios :
                       LET sc == result'[1].scenarios[j]
                       IN  sc.changePercent =
                              ScenarioOutcome(
                                 [name |-> "", value |-> sc.inputValue], j,
                                 actuals[current].actualValue).changePercent]_vars

\* ------------------------------------------------------------ the calendar
\* The quarter of the calendar month 1..12 of the date t: ceil(month / 3).
QuarterOf(t) ==
    LET month == getMonth(t) + 1
    IN  CASE month \in {1, 2, 3}    -> 1
          [] month \in {4, 5, 6}    -> 2
          [] month \in {7, 8, 9}    -> 3
          [] month \in {10, 11, 12} -> 4

\* The periods of the history when the cutoff of the current year is the
\* current quarter: the four quarters of last year, then this year's
\* quarters up to and including the current one.
PeriodsToCurrentQuarter ==
    [q \in 1..4 |-> <<getFullYear(now) - 1, q>>]
    \o [q \in 1..QuarterOf(now) |-> <<getFullYear(now), q>>]

\* C27: in every month the history a forecast and the anomaly detector
\* work on runs up to and including the quarter ceil(month / 3) of the
\* current year, a scenario test measures against an Actual of that
\* quarter, and checkThresholds decides against a Target of that quarter.
C27_QuarterOfMonth ==
    [][/\ (Served("GET /api/analytics/forecast/:kpiId")
           /\ response'.status = 200) =>
             \E hist \in SeriesOver(result'[1].kpiId, PeriodsToCurrentQuarter) :
                result' = GetForecastResult(result'[1].kpiId, hist, {}).result
       /\ (Served("detectAnomalies") /\ response'.log = "true") =>
             \E kpiId \in KpiRefs :
                \E hist \in SeriesOver(kpiId, PeriodsToCurrentQuarter) :
                   detectAnomalies(alerts, kpiId, hist, {}).isAnomaly
       /\ (Served("POST /api/analytics/scenario")
           /\ response'.status = 200) =>
             LET kpiId == result'[1].kpiId
                 rows  == getActuals(kpiId, getFullYear(now), QuarterOf(now))
             IN  \A j \in DOMAIN result'[1].scenarios :
                    LET sc == result'[1].scenarios[j]
                    IN  \E value \in (IF rows = {} THEN {0}
                                      ELSE {actuals[a].actualValue : a \in rows}) :
                           sc.changePercent =
                              ScenarioOutcome(
                                 [name |-> "", value |-> sc.inputValue], j,
                                 value).changePercent
       /\ (Served("checkThresholds") /\ response'.log = "Alert created") =>
             LET new == alerts'[Len(alerts')]
             IN  \E t \in getTargets(new.kpiId, getFullYear(now), QuarterOf(now)),
                    v \in ActualValues :
                    /\ ThresholdDecision(v, targets[t]).alertType = new.type
                    /\ ThresholdDecision(v, targets[t]).severity = new.severity]_vars

\* The n-th calendar quarter after the quarter of the date t, as the
\* forecast labels it: <<quarter, year>>.
QuarterAfter(t, n) ==
    LET index == 4 * getFullYear(t) + (QuarterOf(t) - 1) + n
    IN  <<(index % 4) + 1, index \div 4>>

\* C30: on every date the four periods of a forecast are the four
\* calendar quarters that follow the current one, in order.
C30_NextFourQuarters ==
    [][(Served("GET /api/analytics/forecast/:kpiId")
        /\ response'.status = 200) =>
          \A i \in 1..4 :
             result'[1].forecast[i].period = QuarterAfter(now, i)]_vars

\* ------------------------------------------------- the submission's target
\* C28: a submission whose KPI is found, whose Target exists and whose
\* threshold check met no storage failure raises exactly the alert that
\* the decision rule gives for its value against the Target it references.
C28_OwnTarget ==
    [][(/\ Submitted
        /\ response'.log \in {"", "Alert created"}
        /\ getKPI(NewActual.kpiId) # {}
        /\ NewActual.targetId \in DOMAIN targets) =>
          NewAlertKinds = ClaimedKinds(NewActual.actualValue,
                                       targets[NewActual.targetId])]_vars

\* ------------------------------------------------------- the alert store
\* The type and severity pairs the two engines store.
AlertKinds ==
    {Kind("threshold_breach", "critical"), Kind("threshold_breach", "high"),
     Kind("target_exceeded", "low"), Kind("anomaly_detected", "medium")}

\* C29: every stored alert has one of the pairs (threshold_breach,
\* critical), (threshold_breach, high), (target_exceeded, low),
\* (anomaly_detected, medium), and no step changes the type, severity,
\* KPI or department of a stored alert, an alert update included.
C29_AlertKinds ==
    /\ [](\A a \in DOMAIN alerts :
             Kind(alerts[a].type, alerts[a].severity) \in AlertKinds)
    /\ [][\A a \in DOMAIN alerts :
             /\ a \in DOMAIN alerts'
             /\ alerts'[a].type = alerts[a].type
             /\ alerts'[a].severity = alerts[a].severity
             /\ alerts'[a].kpiId = alerts[a].kpiId
             /\ alerts'[a].departmentId = alerts[a].departmentId]_vars

\* The stored alert was updated (marked read and unresolved by u2) and is
\* still the critical threshold breach of KPI 1 in department d1.
C29_Witness ==
    /\ response = Reply("PATCH /api/alerts/:id", 200, "")
    /\ alerts[1].isRead /\ ~alerts[1].isResolved
    /\ alerts[1].resolvedBy = "u2"
    /\ Kind(alerts[1].type, alerts[1].severity)
          = Kind("threshold_breach", "critical")
    /\ alerts[1].kpiId = 1 /\ alerts[1].departmentId = "d1"

====
